---- MODULE Spec2Model ----
(***************************************************************************)
(* The escrow custody engine of src/src/escrowMu.sol: the EscrowFactory    *)
(* (registry) and the Escrow contracts (agreements) it deploys.            *)
(*                                                                         *)
(* A transaction is one atomic step.  A call that reverts leaves no trace  *)
(* in storage or balances: it is the step that changes nothing.  Every     *)
(* external function is an operator that maps the storage and the          *)
(* balances before the call, the caller, the block timestamp and the       *)
(* behaviour of the recipients to the outcome of the call (its result and  *)
(* the storage and balances after it); the actions apply the operators.    *)
(*                                                                         *)
(* balance[a] of an escrow address is address(escrow).balance, the custody *)
(* balance.  balance[a] of an account is what the escrows have paid to it: *)
(* the msg.value a buyer brings to createEscrow comes from outside.        *)
(*                                                                         *)
(* The names prefixed Fac_ are the factory and the escrow of               *)
(* src/src/escrowFac.sol, the variant without fee, approval or expiry.     *)
(* The names prefixed Multi_ are the contract MultiPartyEscrow of          *)
(* src/unnamed/part_001, which keeps all agreements in one mapping and all *)
(* deposits in its own balance.                                            *)
(*                                                                         *)
(* transfer forwards 2300 gas, too little for the recipient to write       *)
(* storage or to call back with value, so a call is not re-entered.  Ether *)
(* forced into an escrow from outside (selfdestruct) is not modelled.      *)
(***************************************************************************)
EXTENDS Integers, Sequences, FiniteSets, TLC

VARIABLES
    admin,                \* EscrowFactory.admin
    adminFeePercentage,   \* EscrowFactory.adminFeePercentage, basis points
    allEscrows,           \* EscrowFactory.allEscrows
    escrow,               \* storage of every deployed Escrow, by address
    balance,              \* wei held by every address
    now,                  \* block.timestamp
    settledBy,            \* history: the call that moved an escrow's funds out
    Fac_admin,            \* escrowFac.sol: EscrowFactory.admin
    Fac_escrows,          \* escrowFac.sol: EscrowFactory.escrows
    Fac_escrow,           \* escrowFac.sol: storage of every deployed Escrow
    Multi_admin,          \* MultiPartyEscrow.admin
    Multi_escrows,        \* MultiPartyEscrow.escrows, by escrowId
    One_escrow,           \* escrowOne.sol: storage of the deployed Escrow
    Auth_env,             \* process.env.KeyCloak_Pub
    Auth_secret,          \* JwtService.secret
    Auth_handled          \* the requests the auth middleware has handled

\* escrowMu.sol's factory and escrows, escrowFac.sol's, and the one contract
\* MultiPartyEscrow.
muVars == <<admin, adminFeePercentage, allEscrows, escrow, settledBy>>

facVars == <<Fac_admin, Fac_escrows, Fac_escrow>>

multiVars == <<Multi_admin, Multi_escrows>>

\* escrowOne.sol's escrow, and the auth middleware of the HTTP server.
oneVars == <<One_escrow>>

authVars == <<Auth_env, Auth_secret, Auth_handled>>

vars == <<muVars, facVars, multiVars, oneVars, authVars, balance, now>>

----------------------------------------------------------------------------
\* The universe of the model.

Accounts == {"alice", "bob", "carol"}

\* The addresses the factory's deployments get, in order.
EscrowAddrs == <<"escrow1", "escrow2">>

\* The addresses the deployments of escrowFac.sol's factory get, in order.
Fac_EscrowAddrs == <<"facEscrow1">>

\* The address of the one MultiPartyEscrow contract, which holds the
\* deposits of all its agreements.
Multi_Address == "multi"

\* The escrowId values offered to MultiPartyEscrow.createEscrow.
Multi_EscrowIds == {"id1", "id2"}

\* address(0)
ZeroAddress == "0x0"

\* The address the Escrow of escrowOne.sol is deployed at.
One_Address == "one"

Addresses ==
    Accounts \cup {EscrowAddrs[k] : k \in DOMAIN EscrowAddrs}
             \cup {Fac_EscrowAddrs[k] : k \in DOMAIN Fac_EscrowAddrs}
             \cup {Multi_Address}
             \cup {One_Address}

\* The account that deploys the factory.
Deployer == "carol"

\* Number of clock advances explored, each of one day.
MaxTicks == 1

\* Largest small deposit explored by the fee specification.
MaxFeeAmount == 40

DAY == 86400

BASIS == 10000

MAX_FEE == 500

\* _feePercentage given to the factory's constructor, which checks nothing.
InitFees == {0, 250, 20000}

\* msg.value offered to createEscrow.
Values == {0, 1000}

\* _expiryDays offered to createEscrow.
ExpiryDays == {0, 1}

\* None, or the one recipient whose receive function reverts during a call.
NoReject == "none"

Rejects == Accounts \cup {NoReject}

OK == "ok"

----------------------------------------------------------------------------
\* The EVM's execution of one call.  A frame is the storage of the called
\* escrow (st), all balances (bal) and the pending revert reason (err).

Frame(st, bal) == [st |-> st, bal |-> bal, err |-> ""]

\* require(cond, msg)
Require(f, cond, msg) ==
    IF f.err # "" THEN f
    ELSE IF cond THEN f
    ELSE [f EXCEPT !.err = msg]

\* Faulty variant of Transfer: the recipient is credited, the contract not debited.
TransferNoDebit(f, self, to, amt, rej) ==
    IF f.err # "" THEN f
    ELSE IF amt > f.bal[self] \/ to = rej THEN [f EXCEPT !.err = "TransferFailed"]
    ELSE [f EXCEPT !.bal[to] = @ + amt]

\* payable(to).transfer(amt) executed by the contract at self: reverts when
\* the contract holds less than amt or the recipient does not accept.
Transfer(f, self, to, amt, rej) ==
    IF f.err # "" THEN f
    ELSE IF amt > f.bal[self] \/ to = rej THEN [f EXCEPT !.err = "TransferFailed"]
    ELSE [f EXCEPT !.bal = [[f.bal EXCEPT ![self] = @ - amt] EXCEPT ![to] = @ + amt]]

\* Faulty variant of Finish: a failed call keeps what it wrote before failing.
FinishNoRollback(f0, f) ==
    [res |-> IF f.err = "" THEN OK ELSE f.err, st |-> f.st, bal |-> f.bal]

\* The end of the call: a revert restores storage and balances.
Finish(f0, f) ==
    IF f.err = ""
    THEN [res |-> OK, st |-> f.st, bal |-> f.bal]
    ELSE [res |-> f.err, st |-> f0.st, bal |-> f0.bal]

----------------------------------------------------------------------------
\* contract Escrow

Terminal == {"COMPLETE", "REFUNDED"}

\* Faulty variant of AdminFee: the division rounds up.
AdminFeeRoundUp(amount, feePercentage) == ((amount * feePercentage) + BASIS - 1) \div BASIS

\* adminFee = (amount * _feePercentage) / 10000.  The product is checked
\* uint256 arithmetic; the amounts of the model stay far below its overflow.
AdminFee(amount, feePercentage) == (amount * feePercentage) \div BASIS

\* constructor, payable
Escrow_constructor(buyer, seller, escrowAdmin, expiryDays, requireMultiSig, feePercentage, value, timestamp) ==
    [admin           |-> escrowAdmin,
     buyer           |-> buyer,
     seller          |-> seller,
     expiryTime      |-> timestamp + (expiryDays * DAY),
     adminFee        |-> AdminFee(value, feePercentage),
     amount          |-> value,
     currentState    |-> "AWAITING_DELIVERY",
     requireMultiSig |-> requireMultiSig,
     buyerApproved   |-> FALSE,
     sellerApproved  |-> FALSE]

\* Faulty variant of onlyParties: the caller is not checked.
onlyPartiesOpen(f, sender) == f

onlyParties(f, sender) ==
    Require(f, sender = f.st.buyer \/ sender = f.st.seller, "Not a party")

\* Faulty variant of onlyAdmin: the caller is compared with the factory's
\* admin of the moment.
onlyAdminCurrent(f, sender) ==
    Require(f, sender = admin, "Only admin")

onlyAdmin(f, sender) ==
    Require(f, sender = f.st.admin, "Only admin")

\* Faulty variant of notExpired: the time is not checked.
notExpiredOpen(f, timestamp) == f

\* Faulty variant of notExpired: the expiry time itself still passes.
notExpiredInclusive(f, timestamp) ==
    Require(f, timestamp <= f.st.expiryTime, "Escrow expired")

notExpired(f, timestamp) ==
    Require(f, timestamp < f.st.expiryTime, "Escrow expired")

\* Faulty variant of SellerAmount: the fee is taken from the factory's
\* percentage at the time of the release.
SellerAmountCurrentFee(st) == st.amount - AdminFee(st.amount, adminFeePercentage)

\* uint256 sellerAmount = amount - adminFee (checked: underflow panics)
SellerAmount(st) == st.amount - st.adminFee

\* Faulty variant of _releaseFunds: the state is left as it was.
_releaseFundsKeepsState(f, self, rej) ==
    IF f.err # "" THEN f
    ELSE IF f.st.adminFee > f.st.amount
         THEN [f EXCEPT !.err = "Panic"]
         ELSE Transfer(Transfer(f, self, f.st.seller, SellerAmount(f.st), rej),
                       self, f.st.admin, f.st.adminFee, rej)

_releaseFunds(f, self, rej) ==
    IF f.err # "" THEN f
    ELSE LET f1 == [f EXCEPT !.st.currentState = "COMPLETE"]
         IN  IF f1.st.adminFee > f1.st.amount
             THEN [f1 EXCEPT !.err = "Panic"]
             ELSE Transfer(Transfer(f1, self, f1.st.seller, SellerAmount(f1.st), rej),
                           self, f1.st.admin, f1.st.adminFee, rej)

\* Faulty variant of confirmDelivery: the buyer's confirmation releases at once
\* in dual-approval mode too.
confirmDeliveryUngated(f0, self, sender, timestamp, rej) ==
    LET f1 == notExpired(onlyParties(f0, sender), timestamp)
        f2 == Require(f1, sender = f0.st.buyer, "Only buyer can confirm")
        f3 == Require(f2, f0.st.currentState = "AWAITING_DELIVERY", "Invalid state")
        f4 == IF f3.err # "" THEN f3
              ELSE IF f3.st.requireMultiSig
                   THEN _releaseFunds([f3 EXCEPT !.st.buyerApproved = TRUE], self, rej)
                   ELSE _releaseFunds(f3, self, rej)
    IN  Finish(f0, f4)

\* Faulty variant of confirmDelivery: the buyer's approval is recorded in
\* single-approval mode too.
confirmDeliveryFlagsAlways(f0, self, sender, timestamp, rej) ==
    LET f1 == notExpired(onlyParties(f0, sender), timestamp)
        f2 == Require(f1, sender = f0.st.buyer, "Only buyer can confirm")
        f3 == Require(f2, f0.st.currentState = "AWAITING_DELIVERY", "Invalid state")
        g  == [f3 EXCEPT !.st.buyerApproved = TRUE]
        f4 == IF f3.err # "" THEN f3
              ELSE IF f3.st.requireMultiSig
                   THEN IF g.st.sellerApproved THEN _releaseFunds(g, self, rej) ELSE g
                   ELSE _releaseFunds(g, self, rej)
    IN  Finish(f0, f4)

confirmDelivery(f0, self, sender, timestamp, rej) ==
    LET f1 == notExpired(onlyParties(f0, sender), timestamp)
        f2 == Require(f1, sender = f0.st.buyer, "Only buyer can confirm")
        f3 == Require(f2, f0.st.currentState = "AWAITING_DELIVERY", "Invalid state")
        f4 == IF f3.err # "" THEN f3
              ELSE IF f3.st.requireMultiSig
                   THEN LET g == [f3 EXCEPT !.st.buyerApproved = TRUE]
                        IN  IF g.st.sellerApproved THEN _releaseFunds(g, self, rej) ELSE g
                   ELSE _releaseFunds(f3, self, rej)
    IN  Finish(f0, f4)

\* Faulty variant of confirmPayment: in single-approval mode the seller's
\* confirmation releases.
confirmPaymentReleases(f0, self, sender, timestamp, rej) ==
    LET f1 == notExpired(onlyParties(f0, sender), timestamp)
        f2 == Require(f1, sender = f0.st.seller, "Only seller can confirm")
        f3 == Require(f2, f0.st.currentState = "AWAITING_DELIVERY", "Invalid state")
        f4 == IF f3.err # "" THEN f3
              ELSE IF f3.st.requireMultiSig
                   THEN LET g == [f3 EXCEPT !.st.sellerApproved = TRUE]
                        IN  IF g.st.buyerApproved THEN _releaseFunds(g, self, rej) ELSE g
                   ELSE _releaseFunds(f3, self, rej)
    IN  Finish(f0, f4)

confirmPayment(f0, self, sender, timestamp, rej) ==
    LET f1 == notExpired(onlyParties(f0, sender), timestamp)
        f2 == Require(f1, sender = f0.st.seller, "Only seller can confirm")
        f3 == Require(f2, f0.st.currentState = "AWAITING_DELIVERY", "Invalid state")
        f4 == IF f3.err # "" THEN f3
              ELSE IF f3.st.requireMultiSig
                   THEN LET g == [f3 EXCEPT !.st.sellerApproved = TRUE]
                        IN  IF g.st.buyerApproved THEN _releaseFunds(g, self, rej) ELSE g
                   ELSE f3
    IN  Finish(f0, f4)

\* Faulty variant of requestRefund: the state is not checked.
requestRefundAnyState(f0, self, sender, timestamp, rej) ==
    LET f1 == notExpired(onlyParties(f0, sender), timestamp)
        f2 == Require(f1, sender = f0.st.buyer, "Only buyer can refund")
        f4 == IF f2.err # "" THEN f2
              ELSE Transfer([f2 EXCEPT !.st.currentState = "REFUNDED"],
                            self, f2.st.buyer, f2.bal[self], rej)
    IN  Finish(f0, f4)

\* Faulty variant of requestRefund: the admin's fee is kept back from the refund.
requestRefundLessFee(f0, self, sender, timestamp, rej) ==
    LET f1 == notExpired(onlyParties(f0, sender), timestamp)
        f2 == Require(f1, sender = f0.st.buyer, "Only buyer can refund")
        f3 == Require(f2, f0.st.currentState = "AWAITING_DELIVERY", "Invalid state")
        f4 == IF f3.err # "" THEN f3
              ELSE Transfer([f3 EXCEPT !.st.currentState = "REFUNDED"],
                            self, f3.st.buyer, SellerAmount(f3.st), rej)
        f5 == IF f4.err # "" THEN f4
              ELSE Transfer(f4, self, f4.st.admin, f4.st.adminFee, rej)
    IN  Finish(f0, f5)

requestRefund(f0, self, sender, timestamp, rej) ==
    LET f1 == notExpired(onlyParties(f0, sender), timestamp)
        f2 == Require(f1, sender = f0.st.buyer, "Only buyer can refund")
        f3 == Require(f2, f0.st.currentState = "AWAITING_DELIVERY", "Invalid state")
        f4 == IF f3.err # "" THEN f3
              ELSE Transfer([f3 EXCEPT !.st.currentState = "REFUNDED"],
                            self, f3.st.buyer, f3.bal[self], rej)
    IN  Finish(f0, f4)

\* Faulty variant of raiseDispute: the state is not checked.
raiseDisputeAnyState(f0, self, sender, timestamp, rej) ==
    LET f1 == notExpired(onlyParties(f0, sender), timestamp)
        f3 == IF f1.err # "" THEN f1
              ELSE [f1 EXCEPT !.st.currentState = "DISPUTED"]
    IN  Finish(f0, f3)

\* Faulty variant of raiseDispute: the approvals given are cleared.
raiseDisputeClearsFlags(f0, self, sender, timestamp, rej) ==
    LET f1 == notExpired(onlyParties(f0, sender), timestamp)
        f2 == Require(f1, f0.st.currentState = "AWAITING_DELIVERY", "Invalid state")
        f3 == IF f2.err # "" THEN f2
              ELSE [f2 EXCEPT !.st.currentState = "DISPUTED",
                              !.st.buyerApproved = FALSE, !.st.sellerApproved = FALSE]
    IN  Finish(f0, f3)

raiseDispute(f0, self, sender, timestamp, rej) ==
    LET f1 == notExpired(onlyParties(f0, sender), timestamp)
        f2 == Require(f1, f0.st.currentState = "AWAITING_DELIVERY", "Invalid state")
        f3 == IF f2.err # "" THEN f2
              ELSE [f2 EXCEPT !.st.currentState = "DISPUTED"]
    IN  Finish(f0, f3)

\* Faulty variant of adminResolution: the state is not checked.
adminResolutionAnyState(f0, self, sender, releaseToSeller, rej) ==
    LET f2 == onlyAdmin(f0, sender)
        f3 == IF f2.err # "" THEN f2
              ELSE IF releaseToSeller
                   THEN IF f2.st.adminFee > f2.st.amount
                        THEN [f2 EXCEPT !.err = "Panic"]
                        ELSE Transfer(Transfer(f2, self, f2.st.seller, SellerAmount(f2.st), rej),
                                      self, f2.st.admin, f2.st.adminFee, rej)
                   ELSE Transfer(f2, self, f2.st.buyer, f2.bal[self], rej)
        f4 == IF f3.err # "" THEN f3
              ELSE [f3 EXCEPT !.st.currentState = "COMPLETE"]
    IN  Finish(f0, f4)

\* Faulty variant of adminResolution: on a release the fee is not paid out.
adminResolutionKeepsFee(f0, self, sender, releaseToSeller, rej) ==
    LET f1 == onlyAdmin(f0, sender)
        f2 == Require(f1, f0.st.currentState = "DISPUTED", "No active dispute")
        f3 == IF f2.err # "" THEN f2
              ELSE IF releaseToSeller
                   THEN IF f2.st.adminFee > f2.st.amount
                        THEN [f2 EXCEPT !.err = "Panic"]
                        ELSE Transfer(f2, self, f2.st.seller, SellerAmount(f2.st), rej)
                   ELSE Transfer(f2, self, f2.st.buyer, f2.bal[self], rej)
        f4 == IF f3.err # "" THEN f3
              ELSE [f3 EXCEPT !.st.currentState = "COMPLETE"]
    IN  Finish(f0, f4)

adminResolution(f0, self, sender, releaseToSeller, rej) ==
    LET f1 == onlyAdmin(f0, sender)
        f2 == Require(f1, f0.st.currentState = "DISPUTED", "No active dispute")
        f3 == IF f2.err # "" THEN f2
              ELSE IF releaseToSeller
                   THEN IF f2.st.adminFee > f2.st.amount
                        THEN [f2 EXCEPT !.err = "Panic"]
                        ELSE Transfer(Transfer(f2, self, f2.st.seller, SellerAmount(f2.st), rej),
                                      self, f2.st.admin, f2.st.adminFee, rej)
                   ELSE Transfer(f2, self, f2.st.buyer, f2.bal[self], rej)
        f4 == IF f3.err # "" THEN f3
              ELSE [f3 EXCEPT !.st.currentState = "COMPLETE"]
    IN  Finish(f0, f4)

\* Faulty variant of expireEscrow: expiry starts one instant late.
expireEscrowLate(f0, self, sender, timestamp, rej) ==
    LET f1 == Require(f0, timestamp > f0.st.expiryTime, "Not expired yet")
        f2 == Require(f1, f0.st.currentState = "AWAITING_DELIVERY", "Already resolved")
        f3 == IF f2.err # "" THEN f2
              ELSE Transfer([f2 EXCEPT !.st.currentState = "REFUNDED"],
                            self, f2.st.buyer, f2.bal[self], rej)
    IN  Finish(f0, f3)

\* Faulty variant of expireEscrow: the time is not checked.
expireEscrowAnyTime(f0, self, sender, timestamp, rej) ==
    LET f2 == Require(f0, f0.st.currentState = "AWAITING_DELIVERY", "Already resolved")
        f3 == IF f2.err # "" THEN f2
              ELSE Transfer([f2 EXCEPT !.st.currentState = "REFUNDED"],
                            self, f2.st.buyer, f2.bal[self], rej)
    IN  Finish(f0, f3)

\* Faulty variant of expireEscrow: the state is not checked.
expireEscrowAnyState(f0, self, sender, timestamp, rej) ==
    LET f1 == Require(f0, timestamp >= f0.st.expiryTime, "Not expired yet")
        f3 == IF f1.err # "" THEN f1
              ELSE Transfer([f1 EXCEPT !.st.currentState = "REFUNDED"],
                            self, f1.st.buyer, f1.bal[self], rej)
    IN  Finish(f0, f3)

\* Faulty variant of expireEscrow: the refund is sent but the state is not set.
expireEscrowKeepsState(f0, self, sender, timestamp, rej) ==
    LET f1 == Require(f0, timestamp >= f0.st.expiryTime, "Not expired yet")
        f2 == Require(f1, f0.st.currentState = "AWAITING_DELIVERY", "Already resolved")
        f3 == IF f2.err # "" THEN f2
              ELSE Transfer(f2, self, f2.st.buyer, f2.bal[self], rej)
    IN  Finish(f0, f3)

\* Faulty variant of expireEscrow: a disputed agreement is refunded too.
expireEscrowDisputed(f0, self, sender, timestamp, rej) ==
    LET f1 == Require(f0, timestamp >= f0.st.expiryTime, "Not expired yet")
        f2 == Require(f1, f0.st.currentState \notin Terminal, "Already resolved")
        f3 == IF f2.err # "" THEN f2
              ELSE Transfer([f2 EXCEPT !.st.currentState = "REFUNDED"],
                            self, f2.st.buyer, f2.bal[self], rej)
    IN  Finish(f0, f3)

expireEscrow(f0, self, sender, timestamp, rej) ==
    LET f1 == Require(f0, timestamp >= f0.st.expiryTime, "Not expired yet")
        f2 == Require(f1, f0.st.currentState = "AWAITING_DELIVERY", "Already resolved")
        f3 == IF f2.err # "" THEN f2
              ELSE Transfer([f2 EXCEPT !.st.currentState = "REFUNDED"],
                            self, f2.st.buyer, f2.bal[self], rej)
    IN  Finish(f0, f3)

----------------------------------------------------------------------------
\* contract EscrowFactory

\* The address the next deployment gets.
NextAddr == EscrowAddrs[Len(allEscrows) + 1]

\* Faulty variant of createEscrow: msg.value is not checked.
createEscrowFree(sender, seller, expiryDays, requireMultiSig, value) ==
    [res |-> OK,
     st  |-> Escrow_constructor(sender, seller, admin, expiryDays, requireMultiSig,
                                adminFeePercentage, value, now)]

\* createEscrow, payable: the result and the storage of the new Escrow.
createEscrow(sender, seller, expiryDays, requireMultiSig, value) ==
    IF value > 0
    THEN [res |-> OK,
          st  |-> Escrow_constructor(sender, seller, admin, expiryDays, requireMultiSig,
                                     adminFeePercentage, value, now)]
    ELSE [res |-> "Must send ETH to create escrow", st |-> <<>>]

\* Faulty variant of changeAdmin: the caller is not checked.
changeAdminAnyCaller(sender, newAdmin) == [res |-> OK, admin |-> newAdmin]

\* changeAdmin: the result and the admin after the call.
changeAdmin(sender, newAdmin) ==
    IF sender # admin THEN [res |-> "Only admin", admin |-> admin]
    ELSE [res |-> OK, admin |-> newAdmin]

\* Faulty variant of setFeePercentage: the new percentage is not checked.
setFeePercentageNoBound(sender, newPercentage) ==
    IF sender # admin THEN [res |-> "Only admin", fee |-> adminFeePercentage]
    ELSE [res |-> OK, fee |-> newPercentage]

\* setFeePercentage: the result and the fee after the call.
setFeePercentage(sender, newPercentage) ==
    IF sender # admin THEN [res |-> "Only admin", fee |-> adminFeePercentage]
    ELSE IF ~(newPercentage <= MAX_FEE) THEN [res |-> "Max 5% fee", fee |-> adminFeePercentage]
    ELSE [res |-> OK, fee |-> newPercentage]

----------------------------------------------------------------------------
\* escrowFac.sol: contract Escrow and contract EscrowFactory

Fac_Escrow_constructor(buyer, seller, escrowAdmin) ==
    [admin |-> escrowAdmin, buyer |-> buyer, seller |-> seller,
     currentState |-> "AWAITING_DELIVERY"]

Fac_onlyAdmin(f, sender) ==
    Require(f, sender = f.st.admin, "Only admin can call this")

Fac_onlyBuyer(f, sender) ==
    Require(f, sender = f.st.buyer, "Only buyer can call this")

\* The body shared by the four functions: the state check, the new state,
\* the transfer of the whole balance.
Fac_settle(f0, f1, self, newState, to, rej) ==
    LET f2 == Require(f1, f0.st.currentState = "AWAITING_DELIVERY", "Invalid state")
        f3 == IF f2.err # "" THEN f2
              ELSE Transfer([f2 EXCEPT !.st.currentState = newState],
                            self, to, f2.bal[self], rej)
    IN  Finish(f0, f3)

Fac_confirmDelivery(f0, self, sender, rej) ==
    Fac_settle(f0, Fac_onlyBuyer(f0, sender), self, "COMPLETE", f0.st.seller, rej)

Fac_requestRefund(f0, self, sender, rej) ==
    Fac_settle(f0, Fac_onlyBuyer(f0, sender), self, "REFUNDED", f0.st.buyer, rej)

Fac_adminRelease(f0, self, sender, rej) ==
    Fac_settle(f0, Fac_onlyAdmin(f0, sender), self, "COMPLETE", f0.st.seller, rej)

Fac_adminRefund(f0, self, sender, rej) ==
    Fac_settle(f0, Fac_onlyAdmin(f0, sender), self, "REFUNDED", f0.st.buyer, rej)

Fac_NextAddr == Fac_EscrowAddrs[Len(Fac_escrows) + 1]

\* createEscrow, payable: the result and the storage of the new Escrow.
Fac_createEscrow(sender, seller, value) ==
    IF value > 0
    THEN [res |-> OK, st |-> Fac_Escrow_constructor(sender, seller, Fac_admin)]
    ELSE [res |-> "Must send ETH to create escrow", st |-> <<>>]

\* changeAdmin, onlyAdmin: the result and the admin after the call.
Fac_changeAdmin(sender, newAdmin) ==
    IF sender # Fac_admin THEN [res |-> "Only admin can call this", admin |-> Fac_admin]
    ELSE [res |-> OK, admin |-> newAdmin]

Fac_Ops == {"confirmDelivery", "requestRefund", "adminRelease", "adminRefund"}

Fac_Call(op, self, sender, rej) ==
    LET f0 == Frame(Fac_escrow[self], balance)
    IN  CASE op = "confirmDelivery" -> Fac_confirmDelivery(f0, self, sender, rej)
          [] op = "requestRefund"   -> Fac_requestRefund(f0, self, sender, rej)
          [] op = "adminRelease"    -> Fac_adminRelease(f0, self, sender, rej)
          [] op = "adminRefund"     -> Fac_adminRefund(f0, self, sender, rej)

\* The state after construction of the factory.
Fac_Init ==
    /\ Fac_admin = Deployer
    /\ Fac_escrows = <<>>
    /\ Fac_escrow = <<>>

\* A transaction calling createEscrow, at most limit deployments in all.
Fac_CreateEscrow(limit, senders, sellers, values) ==
    /\ Len(Fac_escrows) < limit
    /\ \E sender \in senders, seller \in sellers, value \in values :
          LET out == Fac_createEscrow(sender, seller, value)
          IN  IF out.res = OK
              THEN /\ Fac_escrow' = (Fac_NextAddr :> out.st) @@ Fac_escrow
                   /\ Fac_escrows' = Append(Fac_escrows, Fac_NextAddr)
                   /\ balance' = [balance EXCEPT ![Fac_NextAddr] = @ + value]
                   /\ UNCHANGED <<Fac_admin, muVars, multiVars, oneVars, authVars, now>>
              ELSE UNCHANGED vars

\* A transaction calling changeAdmin.
Fac_ChangeAdmin(senders, newAdmins) ==
    \E sender \in senders, newAdmin \in newAdmins :
        /\ Fac_admin' = Fac_changeAdmin(sender, newAdmin).admin
        /\ UNCHANGED <<Fac_escrows, Fac_escrow, muVars, multiVars, oneVars, authVars, balance, now>>

\* A transaction calling a function of a deployed escrow.
Fac_EscrowCall(senders, rejects) ==
    \E self \in DOMAIN Fac_escrow, op \in Fac_Ops, sender \in senders, rej \in rejects :
        LET out == Fac_Call(op, self, sender, rej)
        IN  /\ Fac_escrow' = [Fac_escrow EXCEPT ![self] = out.st]
            /\ balance' = out.bal
            /\ UNCHANGED <<Fac_admin, Fac_escrows, muVars, multiVars, oneVars, authVars, now>>

----------------------------------------------------------------------------
\* src/unnamed/part_001: contract MultiPartyEscrow.  The storage of a call's
\* frame is the mapping escrows.

\* The value of escrows[escrowId] for an escrowId never written.
\* Faulty variant of Multi_NoAgreement: the first value of the enum is the
\* state the functions ask for.
Multi_NoAgreementDelivery ==
    [buyer |-> ZeroAddress, seller |-> ZeroAddress, amount |-> 0, state |-> "AWAITING_DELIVERY"]

Multi_NoAgreement ==
    [buyer |-> ZeroAddress, seller |-> ZeroAddress, amount |-> 0, state |-> "AWAITING_PAYMENT"]

Multi_onlyAdmin(f, sender) ==
    Require(f, sender = Multi_admin, "Only admin can call this")

Multi_onlyParties(f, escrowId, sender) ==
    Require(f, sender = f.st[escrowId].buyer \/ sender = f.st[escrowId].seller,
            "Not a party to this escrow")

\* Faulty variant of Multi_createEscrow: an escrowId in use is overwritten.
Multi_createEscrowOverwrites(f0, escrowId, sender, seller, value) ==
    LET f1 == Require(f0, value > 0, "Must send ETH to create escrow")
        f3 == IF f1.err # "" THEN f1
              ELSE [f1 EXCEPT !.st[escrowId] = [buyer |-> sender, seller |-> seller,
                                                 amount |-> value,
                                                 state |-> "AWAITING_DELIVERY"],
                              !.bal[Multi_Address] = @ + value]
    IN  Finish(f0, f3)

\* createEscrow, payable: msg.value is credited to the contract.
Multi_createEscrow(f0, escrowId, sender, seller, value) ==
    LET f1 == Require(f0, value > 0, "Must send ETH to create escrow")
        f2 == Require(f1, f0.st[escrowId].buyer = ZeroAddress, "Escrow ID already exists")
        f3 == IF f2.err # "" THEN f2
              ELSE [f2 EXCEPT !.st[escrowId] = [buyer |-> sender, seller |-> seller,
                                                 amount |-> value,
                                                 state |-> "AWAITING_DELIVERY"],
                              !.bal[Multi_Address] = @ + value]
    IN  Finish(f0, f3)

\* Faulty variant of Multi_settle: the agreement's state is not written.
Multi_settleKeepsState(f0, f1, escrowId, newState, to, rej) ==
    LET f2 == Require(f1, f0.st[escrowId].state = "AWAITING_DELIVERY", "Invalid state")
        f3 == IF f2.err # "" THEN f2
              ELSE Transfer(f2, Multi_Address, to, f2.st[escrowId].amount, rej)
    IN  Finish(f0, f3)

\* Faulty variant of Multi_settle: the transfer is of the contract's whole
\* balance.
Multi_settleWholeBalance(f0, f1, escrowId, newState, to, rej) ==
    LET f2 == Require(f1, f0.st[escrowId].state = "AWAITING_DELIVERY", "Invalid state")
        f3 == IF f2.err # "" THEN f2
              ELSE Transfer([f2 EXCEPT !.st[escrowId].state = newState],
                            Multi_Address, to, f2.bal[Multi_Address], rej)
    IN  Finish(f0, f3)

\* The body shared by the four functions: the state check, the new state,
\* the transfer of the agreement's amount out of the contract's balance.
Multi_settle(f0, f1, escrowId, newState, to, rej) ==
    LET f2 == Require(f1, f0.st[escrowId].state = "AWAITING_DELIVERY", "Invalid state")
        f3 == IF f2.err # "" THEN f2
              ELSE Transfer([f2 EXCEPT !.st[escrowId].state = newState],
                            Multi_Address, to, f2.st[escrowId].amount, rej)
    IN  Finish(f0, f3)

Multi_confirmDelivery(f0, escrowId, sender, rej) ==
    Multi_settle(f0, Multi_onlyParties(f0, escrowId, sender), escrowId, "COMPLETE",
                 f0.st[escrowId].seller, rej)

Multi_requestRefund(f0, escrowId, sender, rej) ==
    Multi_settle(f0, Multi_onlyParties(f0, escrowId, sender), escrowId, "REFUNDED",
                 f0.st[escrowId].buyer, rej)

Multi_adminRelease(f0, escrowId, sender, rej) ==
    Multi_settle(f0, Multi_onlyAdmin(f0, sender), escrowId, "COMPLETE",
                 f0.st[escrowId].seller, rej)

Multi_adminRefund(f0, escrowId, sender, rej) ==
    Multi_settle(f0, Multi_onlyAdmin(f0, sender), escrowId, "REFUNDED",
                 f0.st[escrowId].buyer, rej)

Multi_Ops == {"confirmDelivery", "requestRefund", "adminRelease", "adminRefund"}

\* The outcome of the call op on the agreement escrowId, made by sender.
Multi_Call(op, escrowId, sender, rej) ==
    LET f0 == Frame(Multi_escrows, balance)
    IN  CASE op = "confirmDelivery" -> Multi_confirmDelivery(f0, escrowId, sender, rej)
          [] op = "requestRefund"   -> Multi_requestRefund(f0, escrowId, sender, rej)
          [] op = "adminRelease"    -> Multi_adminRelease(f0, escrowId, sender, rej)
          [] op = "adminRefund"     -> Multi_adminRefund(f0, escrowId, sender, rej)

\* The state after construction of the contract.
Multi_Init ==
    /\ Multi_admin = Deployer
    /\ Multi_escrows = [id \in Multi_EscrowIds |-> Multi_NoAgreement]

\* A transaction calling createEscrow.
Multi_CreateEscrow(senders, sellers, values) ==
    \E escrowId \in Multi_EscrowIds, sender \in senders, seller \in sellers, value \in values :
        LET out == Multi_createEscrow(Frame(Multi_escrows, balance), escrowId, sender, seller, value)
        IN  /\ Multi_escrows' = out.st
            /\ balance' = out.bal
            /\ UNCHANGED <<Multi_admin, muVars, facVars, oneVars, authVars, now>>

\* A transaction calling a function on an agreement.
Multi_EscrowCall(senders, rejects) ==
    \E escrowId \in Multi_EscrowIds, op \in Multi_Ops, sender \in senders, rej \in rejects :
        LET out == Multi_Call(op, escrowId, sender, rej)
        IN  /\ Multi_escrows' = out.st
            /\ balance' = out.bal
            /\ UNCHANGED <<Multi_admin, muVars, facVars, oneVars, authVars, now>>

----------------------------------------------------------------------------
\* escrowOne.sol: contract Escrow, deployed on its own, funded by deposit().

One_constructor(sender, buyer, seller) ==
    [admin |-> sender, buyer |-> buyer, seller |-> seller, currentState |-> "AWAITING_PAYMENT"]

One_onlyAdmin(f, sender) ==
    Require(f, sender = f.st.admin, "Only admin can call this")

One_onlyBuyer(f, sender) ==
    Require(f, sender = f.st.buyer, "Only buyer can call this")

\* deposit, payable: msg.value, whatever it is, is credited to the contract.
One_deposit(f0, sender, value) ==
    LET f1 == One_onlyBuyer(f0, sender)
        f2 == Require(f1, f0.st.currentState = "AWAITING_PAYMENT", "Already paid")
        f3 == IF f2.err # "" THEN f2
              ELSE [f2 EXCEPT !.st.currentState = "AWAITING_DELIVERY",
                              !.bal[One_Address] = @ + value]
    IN  Finish(f0, f3)

\* The body shared by confirmDelivery, refundBuyer and releaseToSeller: the
\* state check, COMPLETE, the transfer of the contract's whole balance.
One_payout(f0, f1, message, to, rej) ==
    LET f2 == Require(f1, f0.st.currentState = "AWAITING_DELIVERY", message)
        f3 == IF f2.err # "" THEN f2
              ELSE Transfer([f2 EXCEPT !.st.currentState = "COMPLETE"],
                            One_Address, to, f2.bal[One_Address], rej)
    IN  Finish(f0, f3)

One_confirmDelivery(f0, sender, rej) ==
    One_payout(f0, One_onlyBuyer(f0, sender), "Not in delivery state", f0.st.seller, rej)

One_refundBuyer(f0, sender, rej) ==
    One_payout(f0, One_onlyAdmin(f0, sender), "Cannot refund in current state", f0.st.buyer, rej)

One_releaseToSeller(f0, sender, rej) ==
    One_payout(f0, One_onlyAdmin(f0, sender), "Cannot release in current state",
               f0.st.seller, rej)

\* The functions that pay the deposit out.
One_PayoutOps == {"confirmDelivery", "refundBuyer", "releaseToSeller"}

One_Ops == {"deposit"} \cup One_PayoutOps

\* The outcome of the call op made by sender with msg.value = value (of
\* account for deposit only) on the storage st and the balances bal.
One_CallOn(op, st, bal, sender, value, rej) ==
    LET f0 == Frame(st, bal)
    IN  CASE op = "deposit"         -> One_deposit(f0, sender, value)
          [] op = "confirmDelivery" -> One_confirmDelivery(f0, sender, rej)
          [] op = "refundBuyer"     -> One_refundBuyer(f0, sender, rej)
          [] op = "releaseToSeller" -> One_releaseToSeller(f0, sender, rej)

One_Call(op, sender, value, rej) ==
    One_CallOn(op, One_escrow[One_Address], balance, sender, value, rej)

\* Before the deployment there is no contract.
One_Init == One_escrow = <<>>

\* The deployment: the deployer becomes the admin.
One_Deploy(deployers, buyers, sellers) ==
    /\ One_escrow = <<>>
    /\ \E sender \in deployers, buyer \in buyers, seller \in sellers :
          One_escrow' = (One_Address :> One_constructor(sender, buyer, seller))
    /\ UNCHANGED <<muVars, facVars, multiVars, authVars, balance, now>>

\* A transaction calling a function of the deployed escrow.
One_EscrowCall(senders, values, rejects) ==
    /\ One_Address \in DOMAIN One_escrow
    /\ \E op \in One_Ops, sender \in senders, value \in values, rej \in rejects :
          LET out == One_Call(op, sender, value, rej)
          IN  /\ One_escrow' = [One_escrow EXCEPT ![One_Address] = out.st]
              /\ balance' = out.bal
              /\ UNCHANGED <<muVars, facVars, multiVars, authVars, now>>

----------------------------------------------------------------------------

\* src/middleware/authentication.ts and JwtService (common/bcrypt.ts).
\* A string is a sequence of parts, so that replace, startsWith and the
\* template literal are computed as the code computes them; a value that may
\* be undefined or null is a record [defined, parts].

Auth_Undefined == [defined |-> FALSE, parts |-> <<>>]

Auth_String(parts) == [defined |-> TRUE, parts |-> parts]

\* JavaScript's !x for such a value: undefined, null and "" are falsy.
Auth_Falsy(x) == ~x.defined \/ x.parts = <<>>

Auth_Begin == "-----BEGIN PUBLIC KEY-----"

Auth_End == "-----END PUBLIC KEY-----"

\* The realm's public key and another one.
Auth_KeyBodies == {"realmKey", "otherKey"}

\* The values process.env.KeyCloak_Pub can have: not set, empty, a bare key,
\* a key already in PEM form.
Auth_EnvValues ==
    {Auth_Undefined, Auth_String(<<>>)}
        \cup {Auth_String(<<body>>) : body \in Auth_KeyBodies}
        \cup {Auth_String(<<Auth_Begin, "\n", body, "\n", Auth_End>>) : body \in Auth_KeyBodies}

\* The well-formed tokens offered, with what jsonwebtoken's verify finds in
\* them: the key that signed them, whether exp has passed, the email claim
\* ("undefined" when the payload has none).
Auth_Claims ==
    [tokEmail     |-> [signedBy |-> "realmKey", expired |-> FALSE, email |-> "user@example.org"],
     tokNoEmail   |-> [signedBy |-> "realmKey", expired |-> FALSE, email |-> "undefined"],
     tokEmptyMail |-> [signedBy |-> "realmKey", expired |-> FALSE, email |-> ""],
     tokExpired   |-> [signedBy |-> "realmKey", expired |-> TRUE,  email |-> "user@example.org"],
     tokForged    |-> [signedBy |-> "otherKey", expired |-> FALSE, email |-> "user@example.org"],
     tokForgedOld |-> [signedBy |-> "otherKey", expired |-> TRUE,  email |-> "user@example.org"]]

\* The values of req.headers.authorization offered.
Auth_Headers ==
    {Auth_Undefined, Auth_String(<<>>), Auth_String(<<"Bearer ">>),
     Auth_String(<<"Basic ", "credentials">>), Auth_String(<<"tokEmail">>),
     Auth_String(<<"Bearer ", "Bearer ", "tokEmail">>)}
        \cup {Auth_String(<<"Bearer ", token>>) : token \in DOMAIN Auth_Claims}

\* s.replace(pattern, ""): the first occurrence is removed.
RECURSIVE Auth_replace(_, _)
Auth_replace(parts, pattern) ==
    IF parts = <<>> THEN <<>>
    ELSE IF Head(parts) = pattern THEN Tail(parts)
    ELSE <<Head(parts)>> \o Auth_replace(Tail(parts), pattern)

\* JwtService.getSecret: the cached secret, or the key of the environment
\* put in PEM form and cached; throws Error when the variable is not set.
getSecret(secret, env) ==
    IF ~Auth_Falsy(secret) THEN [thrown |-> "", secret |-> secret]
    ELSE IF Auth_Falsy(env) THEN [thrown |-> "Error", secret |-> secret]
    ELSE IF Head(env.parts) = Auth_Begin THEN [thrown |-> "", secret |-> env]
    ELSE [thrown |-> "",
          secret |-> Auth_String(<<Auth_Begin, "\n">> \o env.parts \o <<"\n", Auth_End>>)]

\* jsonwebtoken's verify(token, key, {algorithms: ["RS256"]}): a string that
\* is not a token, or a signature the key does not verify, throws
\* JsonWebTokenError; then a passed exp throws TokenExpiredError; otherwise
\* the payload is returned.
Auth_verify(token, key) ==
    IF Len(token.parts) # 1 \/ token.parts[1] \notin DOMAIN Auth_Claims
    THEN [thrown |-> "JsonWebTokenError", email |-> "undefined"]
    ELSE LET claims == Auth_Claims[token.parts[1]]
         IN  IF Len(key.parts) # 5 \/ key.parts[3] # claims.signedBy
             THEN [thrown |-> "JsonWebTokenError", email |-> "undefined"]
             ELSE IF claims.expired
             THEN [thrown |-> "TokenExpiredError", email |-> "undefined"]
             ELSE [thrown |-> "", email |-> claims.email]

\* JwtService.verifyToken: whatever getSecret or verify throws is logged and
\* thrown again.
verifyToken(token, secret, env) ==
    LET key == getSecret(secret, env)
    IN  IF key.thrown # ""
        THEN [thrown |-> key.thrown, email |-> "undefined", secret |-> key.secret]
        ELSE [thrown |-> Auth_verify(token, key.secret).thrown,
              email  |-> Auth_verify(token, key.secret).email,
              secret |-> key.secret]

\* What the handling of one request has done: the responses sent, the
\* number of calls of next(), req.email, and JwtService.secret afterwards.
Auth_Done(responses, nexts, email, secret) ==
    [responses |-> responses, nexts |-> nexts, email |-> email, secret |-> secret]

Auth_Response(status, message) == [status |-> status, message |-> message]

\* Faulty variant of auth: the return after the 403 response is missing.
authNoReturn(header, secret, env) ==
    LET token == IF header.defined THEN Auth_String(Auth_replace(header.parts, "Bearer "))
                 ELSE Auth_Undefined
        decode == verifyToken(token, secret, env)
    IN  IF Auth_Falsy(token)
        THEN Auth_Done(<<Auth_Response(401, "Access Token not found!")>>, 0, "undefined", secret)
        ELSE IF decode.thrown = "TokenExpiredError"
        THEN Auth_Done(<<Auth_Response(401, "Token expired")>>, 0, "undefined", decode.secret)
        ELSE IF decode.thrown = "JsonWebTokenError"
        THEN Auth_Done(<<Auth_Response(401, "Invalid token")>>, 0, "undefined", decode.secret)
        ELSE IF decode.thrown # ""
        THEN Auth_Done(<<Auth_Response(500, "Internal server error")>>, 0, "undefined",
                       decode.secret)
        ELSE IF decode.email \in {"undefined", ""}
        THEN Auth_Done(<<Auth_Response(403, "Invalid token structure")>>, 1, decode.email,
                       decode.secret)
        ELSE Auth_Done(<<>>, 1, decode.email, decode.secret)

\* auth(req, res, next): the try block up to the first return or throw, then
\* the catch block for what was thrown.
auth(header, secret, env) ==
    LET token == IF header.defined THEN Auth_String(Auth_replace(header.parts, "Bearer "))
                 ELSE Auth_Undefined
        decode == verifyToken(token, secret, env)
    IN  IF Auth_Falsy(token)
        THEN Auth_Done(<<Auth_Response(401, "Access Token not found!")>>, 0, "undefined", secret)
        ELSE IF decode.thrown = "TokenExpiredError"
        THEN Auth_Done(<<Auth_Response(401, "Token expired")>>, 0, "undefined", decode.secret)
        ELSE IF decode.thrown = "JsonWebTokenError"
        THEN Auth_Done(<<Auth_Response(401, "Invalid token")>>, 0, "undefined", decode.secret)
        ELSE IF decode.thrown # ""
        THEN Auth_Done(<<Auth_Response(500, "Internal server error")>>, 0, "undefined",
                       decode.secret)
        ELSE IF decode.email \in {"undefined", ""}
        THEN Auth_Done(<<Auth_Response(403, "Invalid token structure")>>, 0, "undefined",
                       decode.secret)
        ELSE Auth_Done(<<>>, 1, decode.email, decode.secret)

\* The server starts with the variable not set, no secret cached and no
\* request handled.
Auth_Init ==
    /\ Auth_env = Auth_Undefined
    /\ Auth_secret = Auth_Undefined
    /\ Auth_handled = <<>>

\* The environment variable is given a value.
Auth_SetEnv(values) ==
    /\ \E value \in values : Auth_env' = value
    /\ UNCHANGED <<Auth_secret, Auth_handled, muVars, facVars, multiVars, oneVars, balance, now>>

\* A request goes through the middleware; the last one is kept.
Auth_Request(headers) ==
    /\ \E header \in headers :
          LET done == auth(header, Auth_secret, Auth_env)
          IN  /\ Auth_secret' = done.secret
              /\ Auth_handled' = <<[header |-> header, secret |-> Auth_secret,
                                    responses |-> done.responses, nexts |-> done.nexts,
                                    email |-> done.email]>>
    /\ UNCHANGED <<Auth_env, muVars, facVars, multiVars, oneVars, balance, now>>

----------------------------------------------------------------------------

\* The calls on a deployed escrow, by name.

PartyOps == {"confirmDelivery", "confirmPayment", "requestRefund", "raiseDispute"}

Ops == PartyOps \cup {"adminResolution(true)", "adminResolution(false)", "expireEscrow"}

\* The outcome of the call op made now by sender on the escrow at self, its
\* storage being st and the balances bal.
CallOn(op, st, bal, self, sender, rej) ==
    LET f0 == Frame(st, bal)
    IN  CASE op = "confirmDelivery"        -> confirmDelivery(f0, self, sender, now, rej)
          [] op = "confirmPayment"         -> confirmPayment(f0, self, sender, now, rej)
          [] op = "requestRefund"          -> requestRefund(f0, self, sender, now, rej)
          [] op = "raiseDispute"           -> raiseDispute(f0, self, sender, now, rej)
          [] op = "adminResolution(true)"  -> adminResolution(f0, self, sender, TRUE, rej)
          [] op = "adminResolution(false)" -> adminResolution(f0, self, sender, FALSE, rej)
          [] op = "expireEscrow"           -> expireEscrow(f0, self, sender, now, rej)

\* The outcome of the call op on the escrow at self, made now by sender.
Call(op, self, sender, rej) == CallOn(op, escrow[self], balance, self, sender, rej)

\* A recipient that is a contract runs code when it is paid.  A hook says
\* which account does (who, or NoReject for none), which function of the
\* paying escrow it calls back, and whether it ignores the failure of that
\* inner call or reverts with it.  The inner call itself pays accounts that
\* accept and do not call back.
Hooks == [who : Accounts \cup {NoReject}, op : Ops, swallow : BOOLEAN]

\* The element of a singleton: {e : x \in {d}} names d once, as x, in e.
The(S) == CHOOSE x \in S : TRUE

\* What the recipient's code makes of the frame f1 in which it is paid,
\* inner being the outcome of its call back.
Reentered(f1, inner, to, hook) ==
    IF to # hook.who THEN f1
    ELSE IF inner.res = OK THEN [f1 EXCEPT !.st = inner.st, !.bal = inner.bal]
    ELSE IF hook.swallow THEN f1
    ELSE [f1 EXCEPT !.err = "TransferFailed"]

\* Faulty variant of TransferReentrant: the escrow is debited only after the
\* recipient's code has run.
TransferReentrantLateDebit(f, self, to, amt, hook) ==
    The(UNION {IF g.err # "" THEN {g}
               ELSE IF amt > g.bal[self] THEN {[g EXCEPT !.err = "TransferFailed"]}
               ELSE UNION {{The({IF f2.err # "" THEN f2 ELSE [f2 EXCEPT !.bal[self] = @ - amt]
                                   : f2 \in {Reentered(f1, inner, to, hook)}})
                              : inner \in {CallOn(hook.op, f1.st, f1.bal, self, to, NoReject)}}
                             : f1 \in {[g EXCEPT !.bal[to] = @ + amt]}}
                 : g \in {f}})

\* payable(to).transfer(amt) to a recipient whose code calls back into the
\* escrow at self: the value has moved (f1) when the recipient's code runs,
\* and the inner call sees the storage as the outer call has left it so far.
TransferReentrant(f, self, to, amt, hook) ==
    The(UNION {IF g.err # "" THEN {g}
               ELSE IF amt > g.bal[self] THEN {[g EXCEPT !.err = "TransferFailed"]}
               ELSE UNION {{Reentered(f1, inner, to, hook)
                              : inner \in {CallOn(hook.op, f1.st, f1.bal, self, to, NoReject)}}
                             : f1 \in {[g EXCEPT !.bal = [[g.bal EXCEPT ![self] = @ - amt]
                                                            EXCEPT ![to] = @ + amt]]}}
                 : g \in {f}})

\* adminResolution with recipients that call back: the transfers come
\* first, currentState = COMPLETE is written last.
adminResolutionReentrant(f0, self, sender, releaseToSeller, hook) ==
    LET f1 == onlyAdmin(f0, sender)
        f2 == Require(f1, f0.st.currentState = "DISPUTED", "No active dispute")
        f3 == IF f2.err # "" THEN f2
              ELSE IF releaseToSeller
                   THEN IF f2.st.adminFee > f2.st.amount
                        THEN [f2 EXCEPT !.err = "Panic"]
                        ELSE The({TransferReentrant(g, self, f2.st.admin, f2.st.adminFee, hook)
                                    : g \in {TransferReentrant(f2, self, f2.st.seller,
                                                               SellerAmount(f2.st), hook)}})
                   ELSE TransferReentrant(f2, self, f2.st.buyer, f2.bal[self], hook)
    IN  The({Finish(f0, IF g.err # "" THEN g ELSE [g EXCEPT !.st.currentState = "COMPLETE"])
               : g \in {f3}})

\* The history kept of a call: the call that emptied the escrow, if it did.
Settles(op, self, out) ==
    IF out.res = OK /\ out.bal[self] < balance[self] THEN op ELSE settledBy[self]

----------------------------------------------------------------------------
\* The state after construction of the factory, and the transactions.

Init ==
    /\ admin = Deployer
    /\ adminFeePercentage \in InitFees
    /\ allEscrows = <<>>
    /\ escrow = <<>>
    /\ balance = [a \in Addresses |-> 0]
    /\ now = 0
    /\ settledBy = [a \in {} |-> ""]
    /\ Fac_Init
    /\ Multi_Init
    /\ One_Init
    /\ Auth_Init

\* A transaction calling createEscrow, at most limit deployments in all.
CreateEscrow(limit, senders, sellers, days, modes, values) ==
    /\ Len(allEscrows) < limit
    /\ \E sender \in senders, seller \in sellers, expiryDays \in days,
          requireMultiSig \in modes, value \in values :
          LET out == createEscrow(sender, seller, expiryDays, requireMultiSig, value)
          IN  IF out.res = OK
              THEN /\ escrow' = (NextAddr :> out.st) @@ escrow
                   /\ allEscrows' = Append(allEscrows, NextAddr)
                   /\ balance' = [balance EXCEPT ![NextAddr] = @ + value]
                   /\ settledBy' = (NextAddr :> "") @@ settledBy
                   /\ UNCHANGED <<admin, adminFeePercentage, now, facVars, multiVars, oneVars, authVars>>
              ELSE UNCHANGED vars

\* A transaction calling a function of a deployed escrow.
EscrowCall(ops, senders, rejects) ==
    \E self \in DOMAIN escrow, op \in ops, sender \in senders, rej \in rejects :
        LET out == Call(op, self, sender, rej)
        IN  /\ escrow' = [escrow EXCEPT ![self] = out.st]
            /\ balance' = out.bal
            /\ settledBy' = [settledBy EXCEPT ![self] = Settles(op, self, out)]
            /\ UNCHANGED <<admin, adminFeePercentage, allEscrows, now, facVars, multiVars, oneVars, authVars>>

\* A transaction calling changeAdmin.
ChangeAdmin(senders, newAdmins) ==
    \E sender \in senders, newAdmin \in newAdmins :
        /\ admin' = changeAdmin(sender, newAdmin).admin
        /\ UNCHANGED <<adminFeePercentage, allEscrows, escrow, settledBy, facVars, multiVars, oneVars, authVars, balance, now>>

\* A transaction calling setFeePercentage.
SetFeePercentage(senders, percentages) ==
    \E sender \in senders, newPercentage \in percentages :
        /\ adminFeePercentage' = setFeePercentage(sender, newPercentage).fee
        /\ UNCHANGED <<admin, allEscrows, escrow, settledBy, facVars, multiVars, oneVars, authVars, balance, now>>

\* Blocks are mined: the timestamp advances.
Tick ==
    /\ now < MaxTicks * DAY
    /\ now' = now + DAY
    /\ UNCHANGED <<muVars, facVars, multiVars, oneVars, authVars, balance>>

\* One agreement, every caller, every creation input.
Next ==
    \/ CreateEscrow(1, Accounts, Accounts, ExpiryDays, BOOLEAN, Values)
    \/ EscrowCall(Ops, Accounts, Rejects)
    \/ Tick

Spec == Init /\ [][Next]_vars

\* The account that is a contract without a payable receive function: every
\* transfer to it reverts, at every time.
Refusing == "bob"

\* A transaction calling expireEscrow on the escrow at self: the function has
\* no caller check, so anyone can sweep an agreement.
ExpireSweep(self) ==
    /\ self \in DOMAIN escrow
    /\ \E sender \in Accounts :
          LET out == Call("expireEscrow", self, sender, Refusing)
          IN  /\ escrow' = [escrow EXCEPT ![self] = out.st]
              /\ balance' = out.bal
              /\ settledBy' = [settledBy EXCEPT ![self] = Settles("expireEscrow", self, out)]
              /\ UNCHANGED <<admin, adminFeePercentage, allEscrows, now, facVars, multiVars, oneVars, authVars>>

SweptAddrs == {EscrowAddrs[i] : i \in 1 .. Len(EscrowAddrs)}

\* Two dual-approval agreements, the buyer of each an accepting or the
\* refusing account; time advances and every agreement is swept again and
\* again.
NextExpiry ==
    \/ CreateEscrow(2, {"alice", Refusing}, {"carol"}, ExpiryDays, {TRUE}, {1000})
    \/ EscrowCall(Ops \ {"expireEscrow"}, Accounts, {Refusing})
    \/ \E self \in SweptAddrs : ExpireSweep(self)
    \/ Tick

SpecExpiry ==
    /\ Init
    /\ [][NextExpiry]_vars
    /\ WF_vars(Tick)
    /\ \A self \in SweptAddrs : WF_vars(ExpireSweep(self))

\* A transaction calling adminResolution, the recipients calling back.
AdminResolutionReentered(senders, hooks) ==
    \E self \in DOMAIN escrow, sender \in senders, releaseToSeller \in BOOLEAN, hook \in hooks :
        \E out \in {adminResolutionReentrant(Frame(escrow[self], balance), self, sender,
                                             releaseToSeller, hook)} :
        LET op == IF releaseToSeller THEN "adminResolution(true)" ELSE "adminResolution(false)"
        IN  /\ escrow' = [escrow EXCEPT ![self] = out.st]
            /\ balance' = out.bal
            /\ settledBy' = [settledBy EXCEPT ![self] = Settles(op, self, out)]
            /\ UNCHANGED <<admin, adminFeePercentage, allEscrows, now, facVars, multiVars, oneVars, authVars>>

\* One agreement, every caller; the admin's resolution pays recipients that
\* call back.
NextReentry ==
    \/ CreateEscrow(1, Accounts, Accounts, ExpiryDays, BOOLEAN, Values)
    \/ EscrowCall(PartyOps \cup {"expireEscrow"}, Accounts, {NoReject})
    \/ AdminResolutionReentered(Accounts, Hooks)
    \/ Tick

SpecReentry == Init /\ [][NextReentry]_vars

\* The escrow of escrowOne.sol: every deployer, buyer, seller and caller.
NextOne ==
    \/ One_Deploy(Accounts, Accounts, Accounts)
    \/ One_EscrowCall(Accounts, Values, Rejects)

SpecOne == Init /\ [][NextOne]_vars

\* The HTTP server: the environment is set, requests come in.
NextAuth ==
    \/ Auth_SetEnv(Auth_EnvValues)
    \/ Auth_Request(Auth_Headers)

SpecAuth == Init /\ [][NextAuth]_vars

\* One agreement of each variant, escrowMu.sol's and escrowFac.sol's.
NextVariants ==
    \/ Next
    \/ Fac_CreateEscrow(1, {"alice", "carol"}, {"bob"}, Values)
    \/ Fac_EscrowCall(Accounts, Rejects)

SpecVariants == Init /\ [][NextVariants]_vars

\* Two agreements, alice the buyer of both and bob or alice the seller.
NextPair ==
    \/ CreateEscrow(2, {"alice"}, {"bob", "alice"}, {1}, BOOLEAN, Values)
    \/ EscrowCall(Ops, Accounts, {NoReject, "bob"})
    \/ Tick

SpecPair == Init /\ [][NextPair]_vars

\* The fee of every deposit up to MaxFeeAmount, and of 1000, at every
\* percentage setFeePercentage accepts; the buyer then confirms delivery.
FeeValues == (0 .. MaxFeeAmount) \cup {1000}

InitFee ==
    /\ admin = Deployer
    /\ adminFeePercentage \in 0 .. MAX_FEE
    /\ allEscrows = <<>>
    /\ escrow = <<>>
    /\ balance = [a \in Addresses |-> 0]
    /\ now = 0
    /\ settledBy = [a \in {} |-> ""]
    /\ Fac_Init
    /\ Multi_Init
    /\ One_Init
    /\ Auth_Init

NextFee ==
    \/ CreateEscrow(1, {"alice"}, {"bob"}, {1}, {FALSE}, FeeValues)
    \/ EscrowCall({"confirmDelivery"}, {"alice"}, {NoReject})

SpecFee == InitFee /\ [][NextFee]_vars

\* _newPercentage offered to setFeePercentage.
NewFees == {0, MAX_FEE, MAX_FEE + 1}

\* The registry: the admin and the fee change, by every caller, between the
\* creation of two agreements of alice with bob, which are released by
\* alice's confirmation or, after a dispute, by their admin; the admin of
\* escrowFac.sol's factory changes.
NextRegistry ==
    \/ ChangeAdmin(Accounts, Accounts)
    \/ SetFeePercentage(Accounts, NewFees)
    \/ CreateEscrow(2, {"alice"}, {"bob"}, {1}, {FALSE}, Values)
    \/ EscrowCall({"confirmDelivery", "raiseDispute", "adminResolution(true)"}, Accounts, {NoReject})
    \/ Fac_ChangeAdmin(Accounts, {"alice", "carol"})

SpecRegistry == Init /\ [][NextRegistry]_vars

\* Two agreements of escrowMu.sol, created by alice with bob already expired
\* or not, under every call by every caller, and two agreements of
\* MultiPartyEscrow under every call by every caller.
NextShared ==
    \/ CreateEscrow(2, {"alice"}, {"bob"}, ExpiryDays, {FALSE}, Values)
    \/ EscrowCall(Ops, Accounts, {NoReject})
    \/ Multi_CreateEscrow({"alice", "carol"}, {"bob"}, Values)
    \/ Multi_EscrowCall(Accounts, {NoReject, "bob"})

SpecShared == Init /\ [][NextShared]_vars

----------------------------------------------------------------------------
\* The vocabulary of the properties.

\* The revert reasons by the kind of error they are.
InvalidStateErrors == {"Invalid state", "No active dispute", "Already resolved"}

UnauthorizedErrors ==
    {"Not a party", "Only admin", "Only buyer can confirm", "Only seller can confirm",
     "Only buyer can refund"}

ExpiredErrors == {"Escrow expired"}

NotYetExpiredErrors == {"Not expired yet"}

\* The calls that pay the seller, and those that pay the buyer.
ReleaseOps == {"confirmDelivery", "confirmPayment", "adminResolution(true)"}

RefundOps == {"requestRefund", "adminResolution(false)", "expireEscrow"}

\* A call left the storage of the escrow at self and every balance as they were.
NothingChanged(out, self) == out.st = escrow[self] /\ out.bal = balance

\* The caller is the one the function asks for.
Entitled(op, self, sender) ==
    CASE op \in {"confirmDelivery", "requestRefund"} -> sender = escrow[self].buyer
      [] op = "confirmPayment" -> sender = escrow[self].seller
      [] op = "raiseDispute" -> sender \in {escrow[self].buyer, escrow[self].seller}
      [] op \in {"adminResolution(true)", "adminResolution(false)"} -> sender = escrow[self].admin
      [] op = "expireEscrow" -> TRUE

\* The sum of f over the set S.
RECURSIVE SumOver(_, _)
SumOver(f, S) ==
    IF S = {} THEN 0
    ELSE LET x == CHOOSE y \in S : TRUE
         IN  f[x] + SumOver(f, S \ {x})

\* balances after the custody of the escrow at self is paid out whole to `to`.
PaidWhole(self, to) ==
    [[balance EXCEPT ![self] = 0] EXCEPT ![to] = @ + escrow[self].amount]

\* balances after the custody of the escrow at self is released: the amount
\* less the fee to the seller, the fee to the escrow's admin.
PaidReleased(self) ==
    LET st == escrow[self]
        b1 == [balance EXCEPT ![self] = 0]
        b2 == [b1 EXCEPT ![st.seller] = @ + (st.amount - st.adminFee)]
    IN  [b2 EXCEPT ![st.admin] = @ + st.adminFee]

\* The time guard of the function passes.
TimeGuardPasses(op, self) ==
    CASE op \in PartyOps -> now < escrow[self].expiryTime
      [] op \in {"adminResolution(true)", "adminResolution(false)"} -> TRUE
      [] op = "expireEscrow" -> now >= escrow[self].expiryTime

----------------------------------------------------------------------------
\* C1. Exactly-once release, for the agreements of escrowMu.sol and those
\* of escrowFac.sol: an agreement in Complete or Refunded keeps its
\* state and its custody balance in every later step, whatever is called by
\* whomever at whatever time; the custody balance never grows, and the only
\* steps in which funds leave custody are steps from a non-terminal state
\* into a terminal one.  Funds therefore leave in at most one operation.
ExactlyOnceRelease ==
    [][/\ \A a \in DOMAIN escrow :
            /\ escrow[a].currentState \in Terminal
                  => /\ escrow'[a].currentState = escrow[a].currentState
                     /\ balance'[a] = balance[a]
            /\ balance'[a] <= balance[a]
            /\ balance'[a] < balance[a]
                  => /\ escrow[a].currentState \notin Terminal
                     /\ escrow'[a].currentState \in Terminal
                     /\ balance'[a] = 0
       /\ \A a \in DOMAIN Fac_escrow :
            /\ Fac_escrow[a].currentState \in Terminal
                  => /\ Fac_escrow'[a].currentState = Fac_escrow[a].currentState
                     /\ balance'[a] = balance[a]
            /\ balance'[a] <= balance[a]
            /\ balance'[a] < balance[a]
                  => /\ Fac_escrow[a].currentState \notin Terminal
                     /\ Fac_escrow'[a].currentState \in Terminal
                     /\ balance'[a] = 0]_vars

\* An agreement refunded by expireEscrow, seen at a later time, and an
\* agreement of escrowFac.sol completed, each with its funds paid out.
ExactlyOnceReleaseWitness ==
    /\ \E a \in DOMAIN escrow :
          /\ escrow[a].currentState = "REFUNDED"
          /\ settledBy[a] = "expireEscrow"
          /\ balance[a] = 0
          /\ now > escrow[a].expiryTime
    /\ \E a \in DOMAIN Fac_escrow :
          /\ Fac_escrow[a].currentState = "COMPLETE"
          /\ balance[a] = 0

\* C2. Conservation: in every step, over any sequence of calls on the
\* agreements, the sum of all balances (the custody balances and the
\* accounts of buyer, seller and admin) after the step is the sum before
\* it, plus the deposit when the step is a successful createEscrow.
Conservation ==
    [][SumOver(balance', Addresses)
          = SumOver(balance, Addresses)
              + (IF Len(allEscrows') > Len(allEscrows)
                 THEN escrow'[allEscrows'[Len(allEscrows')]].amount
                 ELSE 0)]_vars

\* Two agreements, one released to the seller with its fee, one refunded.
ConservationWitness ==
    \E a \in DOMAIN escrow, b \in DOMAIN escrow :
        /\ settledBy[a] \in ReleaseOps
        /\ settledBy[b] \in RefundOps
        /\ SumOver(balance, Accounts) = escrow[a].amount + escrow[b].amount

\* C3 as stated: in dual-approval mode, whenever the funds have been
\* released to the seller, by a confirmation or by adminResolution(true),
\* both approval flags are true.
DualApprovalGatingAnyRelease ==
    \A a \in DOMAIN escrow :
        (escrow[a].requireMultiSig /\ settledBy[a] \in ReleaseOps)
            => (escrow[a].buyerApproved /\ escrow[a].sellerApproved)

\* C3, amended. In dual-approval mode, whenever the funds have been released
\* to the seller by a confirmation (confirmDelivery or confirmPayment), both
\* approval flags are true; and no single call of a confirmation by a party
\* whose counterpart has not approved moves any funds.
DualApprovalGating ==
    \A a \in DOMAIN escrow :
        /\ (escrow[a].requireMultiSig /\ settledBy[a] \in {"confirmDelivery", "confirmPayment"})
              => (escrow[a].buyerApproved /\ escrow[a].sellerApproved)
        /\ escrow[a].requireMultiSig
              => \A sender \in Accounts, rej \in Rejects :
                    /\ ~escrow[a].sellerApproved
                          => Call("confirmDelivery", a, sender, rej).bal = balance
                    /\ ~escrow[a].buyerApproved
                          => Call("confirmPayment", a, sender, rej).bal = balance

\* A dual-approval agreement released by the second confirmation.
DualApprovalGatingWitness ==
    \E a \in DOMAIN escrow :
        /\ escrow[a].requireMultiSig
        /\ settledBy[a] = "confirmPayment"
        /\ escrow[a].currentState = "COMPLETE"
        /\ balance[a] = 0

\* C4 as stated: on an agreement in Complete or Refunded every call, by any
\* caller at any time, fails with InvalidState and changes nothing.
TerminalFailsInvalidState ==
    \A a \in DOMAIN escrow :
        escrow[a].currentState \in Terminal
            => \A op \in Ops, sender \in Accounts, rej \in Rejects :
                  LET out == Call(op, a, sender, rej)
                  IN  out.res \in InvalidStateErrors /\ NothingChanged(out, a)

\* C4, amended. On an agreement in Complete or Refunded every call, by any
\* caller at any time, fails and changes nothing; it fails with InvalidState
\* when the caller is the one the function asks for and the function's time
\* guard passes, and with the error of the earlier guard otherwise.
TerminalFails ==
    \A a \in DOMAIN escrow :
        escrow[a].currentState \in Terminal
            => \A op \in Ops, sender \in Accounts, rej \in Rejects :
                  LET out == Call(op, a, sender, rej)
                  IN  /\ out.res # OK
                      /\ NothingChanged(out, a)
                      /\ out.res \in InvalidStateErrors
                            <=> (Entitled(op, a, sender) /\ TimeGuardPasses(op, a))
                      /\ out.res \in UnauthorizedErrors \cup ExpiredErrors
                                      \cup NotYetExpiredErrors \cup InvalidStateErrors

\* A completed agreement on which a party's call fails with InvalidState
\* before expiry and with Expired after it.
TerminalFailsWitness ==
    \E a \in DOMAIN escrow :
        /\ escrow[a].currentState = "COMPLETE"
        /\ Call("raiseDispute", a, escrow[a].seller, NoReject).res = "Escrow expired"
        /\ Call("expireEscrow", a, escrow[a].seller, NoReject).res = "Already resolved"

\* C5. All-or-nothing: whenever a call would pay out (it succeeds and moves
\* the custody funds when every recipient accepts) and one of the recipients
\* of its transfers, the first or the second, does not accept, the call
\* fails with TransferFailed and the agreement's state and approval flags
\* and every balance are what they were before the call.
AllOrNothing ==
    \A a \in DOMAIN escrow, op \in Ops, sender \in Accounts, rej \in Accounts :
        LET clean == Call(op, a, sender, NoReject)
            out == Call(op, a, sender, rej)
            recipients == IF op \in ReleaseOps
                          THEN {escrow[a].seller, escrow[a].admin}
                          ELSE {escrow[a].buyer}
        IN  /\ (clean.res = OK /\ clean.bal[a] < balance[a] /\ rej \in recipients)
                  => (out.res = "TransferFailed" /\ NothingChanged(out, a))
            /\ out.res = "TransferFailed" => NothingChanged(out, a)

\* The seller accepts and the admin does not: the second transfer fails.
AllOrNothingWitness ==
    \E a \in DOMAIN escrow :
        /\ escrow[a].seller # escrow[a].admin
        /\ escrow[a].buyerApproved
        /\ Call("confirmPayment", a, escrow[a].seller, NoReject).res = OK
        /\ Call("confirmPayment", a, escrow[a].seller, escrow[a].admin).res = "TransferFailed"

\* C6 as stated: on an agreement in AwaitingResolution, expireEscrow called
\* at a time >= expiryTime by any caller succeeds, sets the state to
\* Refunded and transfers the full deposited amount to the buyer.
ExpiryFallbackAlwaysSucceeds ==
    \A a \in DOMAIN escrow :
        (escrow[a].currentState = "AWAITING_DELIVERY" /\ now >= escrow[a].expiryTime)
            => \A sender \in Accounts, rej \in Rejects :
                  LET out == Call("expireEscrow", a, sender, rej)
                  IN  /\ out.res = OK
                      /\ out.st = [escrow[a] EXCEPT !.currentState = "REFUNDED"]
                      /\ out.bal = PaidWhole(a, escrow[a].buyer)

\* C6, amended. On an agreement in AwaitingResolution, with or without an
\* approval flag set, expireEscrow called at a time >= expiryTime by any
\* caller succeeds unless the buyer's account refuses the transfer: it then
\* sets the state to Refunded and moves the full deposited amount from
\* custody to the buyer, and no other balance changes (no fee, nothing to
\* the seller).  When the buyer's account refuses, the call fails with
\* TransferFailed and changes nothing.
ExpiryFallback ==
    \A a \in DOMAIN escrow :
        (escrow[a].currentState = "AWAITING_DELIVERY" /\ now >= escrow[a].expiryTime)
            => \A sender \in Accounts, rej \in Rejects :
                  LET out == Call("expireEscrow", a, sender, rej)
                  IN  IF rej = escrow[a].buyer
                      THEN out.res = "TransferFailed" /\ NothingChanged(out, a)
                      ELSE /\ out.res = OK
                           /\ out.st = [escrow[a] EXCEPT !.currentState = "REFUNDED"]
                           /\ out.bal = PaidWhole(a, escrow[a].buyer)

\* An agreement with an approval flag set was refunded by expireEscrow.
ExpiryFallbackWitness ==
    \E a \in DOMAIN escrow :
        /\ settledBy[a] = "expireEscrow"
        /\ escrow[a].currentState = "REFUNDED"
        /\ escrow[a].sellerApproved
        /\ balance[a] = 0
        /\ balance[escrow[a].buyer] = escrow[a].amount

\* C7. expireEscrow called at a time < expiryTime fails as not yet expired,
\* in every state of the agreement and for every caller, and changes
\* nothing.
ExpireBeforeExpiryFails ==
    \A a \in DOMAIN escrow :
        now < escrow[a].expiryTime
            => \A sender \in Accounts, rej \in Rejects :
                  LET out == Call("expireEscrow", a, sender, rej)
                  IN  out.res \in NotYetExpiredErrors /\ NothingChanged(out, a)

\* A disputed agreement before its expiry time, on which expireEscrow fails.
ExpireBeforeExpiryFailsWitness ==
    \E a \in DOMAIN escrow :
        /\ now < escrow[a].expiryTime
        /\ escrow[a].currentState = "DISPUTED"
        /\ Call("expireEscrow", a, escrow[a].buyer, NoReject).res = "Not expired yet"

\* C8. After a successful expireEscrow the agreement is Refunded with an
\* empty custody balance, and every later expireEscrow on it, by any caller,
\* fails with InvalidState and moves no funds.
ExpireOnlyOnce ==
    \A a \in DOMAIN escrow :
        settledBy[a] = "expireEscrow"
            => /\ escrow[a].currentState = "REFUNDED"
               /\ balance[a] = 0
               /\ \A sender \in Accounts, rej \in Rejects :
                     LET out == Call("expireEscrow", a, sender, rej)
                     IN  out.res \in InvalidStateErrors /\ NothingChanged(out, a)

\* A later time at which an agreement refunded by expireEscrow refuses it.
ExpireOnlyOnceWitness ==
    \E a \in DOMAIN escrow :
        /\ settledBy[a] = "expireEscrow"
        /\ now > escrow[a].expiryTime
        /\ Call("expireEscrow", a, escrow[a].buyer, NoReject).res = "Already resolved"

\* C9. Fee exactness: for every deposit > 0 and every fee percentage in
\* 0..500, the fee stored at creation is floor(amount * percentage / 10000),
\* the seller's amount is not negative, fee and seller's amount add up to
\* the deposit, and the release pays exactly these two amounts.
FeeExactness ==
    \A a \in DOMAIN escrow :
        LET st == escrow[a]
        IN  (st.amount > 0 /\ adminFeePercentage \in 0 .. MAX_FEE)
              => /\ st.adminFee * BASIS <= st.amount * adminFeePercentage
                 /\ st.amount * adminFeePercentage < (st.adminFee + 1) * BASIS
                 /\ SellerAmount(st) >= 0
                 /\ st.adminFee + SellerAmount(st) = st.amount
                 /\ settledBy[a] = "confirmDelivery"
                       => /\ balance[st.seller] + balance[st.admin] = st.amount
                          /\ balance[st.admin] = st.adminFee
                          /\ balance[a] = 0

\* A deposit whose fee is rounded down, released.
FeeExactnessWitness ==
    \E a \in DOMAIN escrow :
        /\ escrow[a].amount = 39
        /\ adminFeePercentage = MAX_FEE
        /\ escrow[a].adminFee = 1
        /\ settledBy[a] = "confirmDelivery"
        /\ balance[escrow[a].seller] = 38

\* C10 as stated: in single-approval mode confirmDelivery by the buyer on an
\* AwaitingResolution agreement before expiry, every recipient accepting,
\* moves it to Complete in that call, pays amount - fee to the seller and
\* fee to the agreement's admin and leaves the custody balance at zero.
SingleApprovalConfirmReleases ==
    \A a \in DOMAIN escrow :
        (/\ ~escrow[a].requireMultiSig
         /\ escrow[a].currentState = "AWAITING_DELIVERY"
         /\ now < escrow[a].expiryTime)
            => LET out == Call("confirmDelivery", a, escrow[a].buyer, NoReject)
               IN  /\ out.res = OK
                   /\ out.st = [escrow[a] EXCEPT !.currentState = "COMPLETE"]
                   /\ out.bal = PaidReleased(a)
                   /\ out.bal[a] = 0

\* The outcome of the call op made by sender right after the call whose
\* outcome is out.
Then(out, op, self, sender, rej) == CallOn(op, out.st, out.bal, self, sender, rej)

\* C11 as stated: on a dual-approval agreement in AwaitingResolution before
\* expiry with no approval yet, every recipient accepting, the first
\* confirmation (confirmDelivery by the buyer or confirmPayment by the
\* seller) only sets the caller's flag and moves no balance; repeating it
\* releases nothing; the confirmation by the other side then moves the
\* agreement to Complete and releases amount - fee and fee; both orders end
\* in the same storage and balances; a further confirmation moves nothing.
DualApprovalOrder ==
    \A a \in DOMAIN escrow :
        LET st0 == escrow[a]
            b1 == Call("confirmDelivery", a, st0.buyer, NoReject)
            bb == Then(b1, "confirmDelivery", a, st0.buyer, NoReject)
            b2 == Then(b1, "confirmPayment", a, st0.seller, NoReject)
            s1 == Call("confirmPayment", a, st0.seller, NoReject)
            ss == Then(s1, "confirmPayment", a, st0.seller, NoReject)
            s2 == Then(s1, "confirmDelivery", a, st0.buyer, NoReject)
        IN  (/\ st0.requireMultiSig
             /\ st0.currentState = "AWAITING_DELIVERY"
             /\ ~st0.buyerApproved /\ ~st0.sellerApproved
             /\ now < st0.expiryTime)
              => /\ b1.res = OK
                 /\ b1.st = [st0 EXCEPT !.buyerApproved = TRUE]
                 /\ b1.bal = balance
                 /\ s1.res = OK
                 /\ s1.st = [st0 EXCEPT !.sellerApproved = TRUE]
                 /\ s1.bal = balance
                 /\ bb.st = b1.st /\ bb.bal = balance
                 /\ ss.st = s1.st /\ ss.bal = balance
                 /\ b2.res = OK
                 /\ b2.st = [st0 EXCEPT !.buyerApproved = TRUE, !.sellerApproved = TRUE,
                                        !.currentState = "COMPLETE"]
                 /\ b2.bal = PaidReleased(a)
                 /\ s2.res = OK
                 /\ s2.st = b2.st
                 /\ s2.bal = b2.bal
                 /\ \A op \in {"confirmDelivery", "confirmPayment"}, sender \in Accounts :
                       Then(b2, op, a, sender, NoReject).bal = b2.bal

\* A dual-approval agreement whose stored fee exceeds its deposit, the buyer
\* having confirmed: the seller's confirmation fails on amount - adminFee.
DualApprovalOrderPanics ==
    \E a \in DOMAIN escrow :
        /\ escrow[a].requireMultiSig
        /\ escrow[a].buyerApproved /\ ~escrow[a].sellerApproved
        /\ escrow[a].adminFee > escrow[a].amount
        /\ now < escrow[a].expiryTime
        /\ Call("confirmPayment", a, escrow[a].seller, NoReject).res = "Panic"

\* C12 as stated: on a Disputed agreement, adminResolution by anyone other
\* than the agreement's admin fails with Unauthorized and changes nothing;
\* adminResolution(false) by the admin, the recipients accepting, sets the
\* state to Complete and pays the full deposit to the buyer, nothing to the
\* admin; adminResolution(true) by the admin sets the state to Complete and
\* pays amount - fee to the seller and fee to the admin.
AdminResolves ==
    \A a \in DOMAIN escrow :
        escrow[a].currentState = "DISPUTED"
            => \A sender \in Accounts :
                  LET toBuyer == Call("adminResolution(false)", a, sender, NoReject)
                      toSeller == Call("adminResolution(true)", a, sender, NoReject)
                      done == [escrow[a] EXCEPT !.currentState = "COMPLETE"]
                  IN  IF sender # escrow[a].admin
                      THEN \A rej \in Rejects :
                              \A op \in {"adminResolution(false)", "adminResolution(true)"} :
                                  LET out == Call(op, a, sender, rej)
                                  IN  out.res \in UnauthorizedErrors /\ NothingChanged(out, a)
                      ELSE /\ toBuyer.res = OK
                           /\ toBuyer.st = done
                           /\ toBuyer.bal = PaidWhole(a, escrow[a].buyer)
                           /\ toSeller.res = OK
                           /\ toSeller.st = done
                           /\ toSeller.bal = PaidReleased(a)

\* A Disputed agreement whose stored fee exceeds its deposit: the admin can
\* resolve it to the buyer, and resolving it to the seller fails on
\* amount - adminFee.
AdminResolvesPanics ==
    \E a \in DOMAIN escrow :
        /\ escrow[a].currentState = "DISPUTED"
        /\ escrow[a].adminFee > escrow[a].amount
        /\ Call("adminResolution(false)", a, escrow[a].admin, NoReject).res = OK
        /\ Call("adminResolution(true)", a, escrow[a].admin, NoReject).res = "Panic"
        /\ Call("adminResolution(true)", a, escrow[a].buyer, NoReject).res = "Only admin"

\* The caller is the buyer or the seller of the agreement.
Party(self, sender) == sender \in {escrow[self].buyer, escrow[self].seller}

\* C13 as stated: every call on an agreement, expireEscrow included, fails
\* with Unauthorized and changes nothing when the caller is not entitled to
\* it: a caller who is not a party at the four party functions and at
\* expireEscrow, the seller at confirmDelivery and requestRefund, the buyer
\* at confirmPayment, a caller who is not the admin at adminResolution.
UnentitledFailsUnauthorized ==
    \A a \in DOMAIN escrow, op \in Ops, sender \in Accounts, rej \in Rejects :
        LET out == Call(op, a, sender, rej)
            entitled == IF op = "expireEscrow" THEN Party(a, sender)
                        ELSE Entitled(op, a, sender)
        IN  ~entitled => (out.res \in UnauthorizedErrors /\ NothingChanged(out, a))

\* C13, amended. Every call other than expireEscrow fails and changes
\* nothing when the caller is not entitled to it.  It fails with
\* Unauthorized when the caller is not a party (the four party functions),
\* or not the admin (adminResolution), in every state and at every time;
\* a party calling the other party's function fails with Unauthorized
\* before the expiry time and with Expired from the expiry time on.
\* expireEscrow checks no caller: its outcome is the same for every caller.
UnentitledFails ==
    \A a \in DOMAIN escrow, op \in Ops, sender \in Accounts, rej \in Rejects :
        LET out == Call(op, a, sender, rej)
        IN  IF op = "expireEscrow"
            THEN out = Call(op, a, escrow[a].buyer, rej)
            ELSE ~Entitled(op, a, sender)
                    => /\ out.res # OK
                       /\ NothingChanged(out, a)
                       /\ out.res \in UnauthorizedErrors \cup ExpiredErrors
                       /\ out.res \in ExpiredErrors
                             <=> (/\ op \in PartyOps
                                  /\ Party(a, sender)
                                  /\ now >= escrow[a].expiryTime)

\* An expired agreement in AwaitingResolution on which expireEscrow called by
\* someone who is not a party succeeds, and the seller's confirmDelivery
\* fails with Expired.
UnentitledFailsWitness ==
    \E a \in DOMAIN escrow, sender \in Accounts :
        /\ ~Party(a, sender)
        /\ escrow[a].buyer # escrow[a].seller
        /\ escrow[a].currentState = "AWAITING_DELIVERY"
        /\ now >= escrow[a].expiryTime
        /\ Call("expireEscrow", a, sender, NoReject).res = OK
        /\ Call("expireEscrow", a, sender, NoReject).bal = PaidWhole(a, escrow[a].buyer)
        /\ Call("raiseDispute", a, sender, NoReject).res = "Not a party"
        /\ Call("confirmDelivery", a, escrow[a].seller, NoReject).res = "Escrow expired"

AdminOps == {"adminResolution(true)", "adminResolution(false)"}

\* C14 as stated: on an agreement that is not terminal, at a time >=
\* expiryTime, every call other than expireEscrow (the four party functions,
\* and adminResolution when the agreement is Disputed) fails with Expired
\* and changes nothing.
AfterExpiryFailsExpired ==
    \A a \in DOMAIN escrow :
        (escrow[a].currentState \notin Terminal /\ now >= escrow[a].expiryTime)
            => \A sender \in Accounts, rej \in Rejects :
                  \A op \in PartyOps \cup (IF escrow[a].currentState = "DISPUTED"
                                           THEN AdminOps ELSE {}) :
                      LET out == Call(op, a, sender, rej)
                      IN  out.res \in ExpiredErrors /\ NothingChanged(out, a)

\* C14, amended. On an agreement that is not terminal, at a time >=
\* expiryTime, each of the four party functions fails and changes nothing,
\* with Expired when the caller is the buyer or the seller and with
\* Unauthorized when not.  adminResolution has no time guard and never
\* fails with Expired: on a Disputed agreement past its expiry time it fails
\* with Unauthorized for a caller who is not the admin, and for the admin it
\* resolves as before expiry: to the buyer, the whole deposit, unless the
\* buyer refuses the transfer; to the seller, amount - fee and fee, unless
\* the stored fee exceeds the deposit (Panic) or a recipient refuses.
AfterExpiryFails ==
    \A a \in DOMAIN escrow :
        (escrow[a].currentState \notin Terminal /\ now >= escrow[a].expiryTime)
            => \A sender \in Accounts, rej \in Rejects :
                  /\ \A op \in PartyOps :
                        LET out == Call(op, a, sender, rej)
                        IN  /\ NothingChanged(out, a)
                            /\ IF Party(a, sender) THEN out.res \in ExpiredErrors
                               ELSE out.res \in UnauthorizedErrors
                  /\ escrow[a].currentState = "DISPUTED"
                        => LET toBuyer == Call("adminResolution(false)", a, sender, rej)
                               toSeller == Call("adminResolution(true)", a, sender, rej)
                               done == [escrow[a] EXCEPT !.currentState = "COMPLETE"]
                           IN  IF sender # escrow[a].admin
                               THEN /\ toBuyer.res \in UnauthorizedErrors
                                    /\ toSeller.res \in UnauthorizedErrors
                                    /\ NothingChanged(toBuyer, a)
                                    /\ NothingChanged(toSeller, a)
                               ELSE /\ IF rej = escrow[a].buyer
                                       THEN /\ toBuyer.res = "TransferFailed"
                                            /\ NothingChanged(toBuyer, a)
                                       ELSE /\ toBuyer.res = OK
                                            /\ toBuyer.st = done
                                            /\ toBuyer.bal = PaidWhole(a, escrow[a].buyer)
                                    /\ IF escrow[a].adminFee > escrow[a].amount
                                       THEN /\ toSeller.res = "Panic"
                                            /\ NothingChanged(toSeller, a)
                                       ELSE IF rej \in {escrow[a].seller, escrow[a].admin}
                                       THEN /\ toSeller.res = "TransferFailed"
                                            /\ NothingChanged(toSeller, a)
                                       ELSE /\ toSeller.res = OK
                                            /\ toSeller.st = done
                                            /\ toSeller.bal = PaidReleased(a)

\* A Disputed agreement at its expiry time: the buyer's call fails with
\* Expired, and the admin resolves it to the seller.
AfterExpiryFailsWitness ==
    \E a \in DOMAIN escrow :
        /\ escrow[a].currentState = "DISPUTED"
        /\ now >= escrow[a].expiryTime
        /\ escrow[a].adminFee = 25
        /\ Call("requestRefund", a, escrow[a].buyer, NoReject).res = "Escrow expired"
        /\ Call("adminResolution(true)", a, escrow[a].admin, NoReject).res = OK
        /\ Call("adminResolution(true)", a, escrow[a].admin, NoReject).st.currentState = "COMPLETE"

\* The calls C15 lists for the seller.
SellerOps == {"confirmPayment", "confirmDelivery", "raiseDispute"}

\* C15 as stated: on a single-approval agreement no call of confirmPayment,
\* confirmDelivery or raiseDispute made by the seller, in any reachable
\* state (so no sequence of them), pays the seller or moves the agreement
\* to Complete, and confirmPayment changes nothing.
SellerCannotRelease ==
    \A a \in DOMAIN escrow :
        ~escrow[a].requireMultiSig
            => \A rej \in Rejects :
                  /\ \A op \in SellerOps :
                        LET out == Call(op, a, escrow[a].seller, rej)
                        IN  /\ out.bal[escrow[a].seller] = balance[escrow[a].seller]
                            /\ out.st.currentState = "COMPLETE"
                                  => escrow[a].currentState = "COMPLETE"
                  /\ NothingChanged(Call("confirmPayment", a, escrow[a].seller, rej), a)

\* C15, amended. On a single-approval agreement whose seller is not also its
\* buyer, no call made by the seller pays the seller or moves the agreement
\* to Complete, in any reachable state (so no sequence of them does),
\* except adminResolution when the seller is also the agreement's admin;
\* and confirmPayment on a single-approval agreement changes nothing,
\* whoever calls it.
SellerCannotReleaseAlone ==
    \A a \in DOMAIN escrow :
        ~escrow[a].requireMultiSig
            => \A rej \in Rejects :
                  /\ escrow[a].seller # escrow[a].buyer
                        => \A op \in Ops :
                              LET out == Call(op, a, escrow[a].seller, rej)
                              IN  (op \in AdminOps /\ escrow[a].seller = escrow[a].admin)
                                  \/ /\ out.bal[escrow[a].seller] = balance[escrow[a].seller]
                                     /\ out.st.currentState = "COMPLETE"
                                           => escrow[a].currentState = "COMPLETE"
                  /\ \A sender \in Accounts :
                        NothingChanged(Call("confirmPayment", a, sender, rej), a)

\* A single-approval agreement in AwaitingResolution before expiry whose
\* seller is not its buyer: the seller's confirmPayment succeeds and changes
\* nothing, the seller's confirmDelivery is refused, and the buyer's
\* confirmDelivery would release.
SellerCannotReleaseAloneWitness ==
    \E a \in DOMAIN escrow :
        /\ ~escrow[a].requireMultiSig
        /\ escrow[a].seller # escrow[a].buyer
        /\ escrow[a].currentState = "AWAITING_DELIVERY"
        /\ Call("confirmPayment", a, escrow[a].seller, NoReject).res = OK
        /\ Call("confirmDelivery", a, escrow[a].seller, NoReject).res = "Only buyer can confirm"
        /\ Call("confirmDelivery", a, escrow[a].buyer, NoReject).st.currentState = "COMPLETE"

\* C16. createEscrow with msg.value = 0 fails, and no step creates an
\* agreement without a deposit; with msg.value > 0 it succeeds, and the new
\* agreement is in AwaitingResolution, its amount the value sent, its buyer
\* the caller, its admin and its fee taken from the factory's admin and
\* percentage at that time, both approval flags false.  The step that
\* creates it appends exactly one address, a fresh one, to allEscrows,
\* deploys exactly that one escrow, with a custody balance equal to the
\* amount, and changes no other escrow and no other balance.
CreateAgreement ==
    /\ [](\A sender \in Accounts, seller \in Accounts, expiryDays \in ExpiryDays,
             requireMultiSig \in BOOLEAN, value \in Values \cup {1} :
             LET out == createEscrow(sender, seller, expiryDays, requireMultiSig, value)
             IN  IF value = 0
                 THEN out.res = "Must send ETH to create escrow"
                 ELSE /\ out.res = OK
                      /\ out.st.currentState = "AWAITING_DELIVERY"
                      /\ out.st.amount = value
                      /\ out.st.buyer = sender
                      /\ out.st.seller = seller
                      /\ out.st.admin = admin
                      /\ out.st.adminFee = AdminFee(value, adminFeePercentage)
                      /\ out.st.requireMultiSig = requireMultiSig
                      /\ ~out.st.buyerApproved /\ ~out.st.sellerApproved)
    /\ [][IF allEscrows' # allEscrows \/ DOMAIN escrow' # DOMAIN escrow
          THEN \E a \in Addresses \ DOMAIN escrow :
                  /\ allEscrows' = Append(allEscrows, a)
                  /\ \A k \in DOMAIN allEscrows : allEscrows[k] # a
                  /\ DOMAIN escrow' = DOMAIN escrow \cup {a}
                  /\ escrow'[a].amount > 0
                  /\ balance' = [balance EXCEPT ![a] = escrow'[a].amount]
                  /\ escrow'[a].currentState = "AWAITING_DELIVERY"
                  /\ escrow'[a].admin = admin
                  /\ escrow'[a].adminFee = AdminFee(escrow'[a].amount, adminFeePercentage)
                  /\ ~escrow'[a].buyerApproved /\ ~escrow'[a].sellerApproved
                  /\ \A b \in DOMAIN escrow : escrow'[b] = escrow[b]
          ELSE TRUE]_vars

\* Two agreements created under different admins and percentages, each
\* holding its deposit, in a state where a creation without deposit fails.
CreateAgreementWitness ==
    /\ Len(allEscrows) = 2
    /\ \A k \in 1 .. 2 :
          /\ escrow[allEscrows[k]].currentState = "AWAITING_DELIVERY"
          /\ balance[allEscrows[k]] = escrow[allEscrows[k]].amount
          /\ escrow[allEscrows[k]].buyer = "alice"
    /\ escrow[allEscrows[1]].admin # escrow[allEscrows[2]].admin
    /\ escrow[allEscrows[1]].adminFee = 25
    /\ escrow[allEscrows[2]].adminFee = 50
    /\ escrow[allEscrows[2]].admin = admin
    /\ createEscrow("alice", "bob", 1, FALSE, 0).res # OK

PolicyViolationErrors == {"Max 5% fee"}

\* C17. setFeePercentage succeeds exactly when the caller is the factory's
\* admin and the new percentage is at most 500, and then stores it; called
\* by anyone else it fails with Unauthorized, whatever the percentage;
\* called by the admin with more than 500 it fails with PolicyViolation;
\* a failed call leaves the stored percentage as it was, and every step that
\* changes the stored percentage leaves it within 0..500.
SetFeeGuarded ==
    /\ [](\A sender \in Accounts, newPercentage \in (0 .. (MAX_FEE + 2)) \cup InitFees :
             LET out == setFeePercentage(sender, newPercentage)
             IN  /\ out.res = OK <=> (sender = admin /\ newPercentage <= MAX_FEE)
                 /\ out.res = OK => out.fee = newPercentage
                 /\ out.res # OK => out.fee = adminFeePercentage
                 /\ sender # admin => out.res \in UnauthorizedErrors
                 /\ (sender = admin /\ newPercentage > MAX_FEE)
                       => out.res \in PolicyViolationErrors)
    /\ [][adminFeePercentage' # adminFeePercentage
             => adminFeePercentage' \in 0 .. MAX_FEE]_vars

\* The admin has changed and the new admin has set the percentage to the
\* bound; the former admin and a larger percentage are refused.
SetFeeGuardedWitness ==
    /\ admin = "alice"
    /\ adminFeePercentage = MAX_FEE
    /\ setFeePercentage("carol", 0).res = "Only admin"
    /\ setFeePercentage("alice", MAX_FEE + 1).res = "Max 5% fee"
    /\ setFeePercentage("alice", 0).res = OK

\* C18 as stated: in every reachable state of the factory, from the state
\* its constructor leaves onwards, adminFeePercentage is within 0..500.
FeeWithinBound == adminFeePercentage \in 0 .. MAX_FEE

\* The factory was constructed with a percentage above the bound, agreements
\* were created at it, and no call has changed it.
FeeAboveBound ==
    /\ adminFeePercentage > MAX_FEE
    /\ Len(allEscrows) = 2
    /\ \A a \in DOMAIN escrow : escrow[a].adminFee > escrow[a].amount

\* C19. A fee change is never retroactive: no step, and so no
\* setFeePercentage, changes the amount or the adminFee stored in an
\* existing agreement; a step that changes the factory's percentage changes
\* no agreement and no balance; an agreement created in a step stores the
\* fee computed from the percentage in force at that step; and a step that
\* moves funds out of an agreement's custody pays the seller the amount
\* less the stored fee and the agreement's admin the stored fee, whatever
\* the factory's percentage has become.
FeeNotRetroactive ==
    [][/\ \A a \in DOMAIN escrow :
             /\ escrow'[a].adminFee = escrow[a].adminFee
             /\ escrow'[a].amount = escrow[a].amount
             /\ balance'[a] < balance[a] => balance' = PaidReleased(a)
       /\ adminFeePercentage' # adminFeePercentage
             => (escrow' = escrow /\ balance' = balance)
       /\ \A a \in DOMAIN escrow' \ DOMAIN escrow :
             escrow'[a].adminFee = AdminFee(escrow'[a].amount, adminFeePercentage)]_vars

\* Two agreements of 1000 created at 250 and at 500 basis points and both
\* released, the percentage having been set to 0 since: the seller has
\* received 975 and 950, the admin 25 and 50.
FeeNotRetroactiveWitness ==
    /\ Len(allEscrows) = 2
    /\ adminFeePercentage = 0
    /\ escrow[allEscrows[1]].adminFee = 25
    /\ escrow[allEscrows[2]].adminFee = 50
    /\ \A a \in DOMAIN escrow : settledBy[a] = "confirmDelivery" /\ balance[a] = 0
    /\ balance["bob"] = 1925
    /\ balance["carol"] = 75

\* C20. For the factory of escrowMu.sol and the one of escrowFac.sol:
\* changeAdmin succeeds exactly when the caller is the factory's admin, and
\* then makes newAdmin the admin; called by anyone else it fails and leaves
\* the admin unchanged; and in the state after a step that has changed the
\* admin, the previous admin fails at changeAdmin and at setFeePercentage,
\* and the new admin succeeds at changeAdmin and at setFeePercentage with a
\* percentage within the bound.
ChangeAdminGuarded ==
    /\ [](\A sender \in Accounts, newAdmin \in Accounts :
             LET out == changeAdmin(sender, newAdmin)
                 fac == Fac_changeAdmin(sender, newAdmin)
             IN  /\ out.res = OK <=> sender = admin
                 /\ out.admin = IF sender = admin THEN newAdmin ELSE admin
                 /\ sender # admin => out.res \in UnauthorizedErrors
                 /\ fac.res = OK <=> sender = Fac_admin
                 /\ fac.admin = IF sender = Fac_admin THEN newAdmin ELSE Fac_admin)
    /\ [][/\ \A previous \in Accounts, current \in Accounts :
                (previous = admin /\ current = admin' /\ current # previous)
                   => \A other \in Accounts, percentage \in NewFees :
                         /\ changeAdmin(previous, other)'.res \in UnauthorizedErrors
                         /\ changeAdmin(previous, other)'.admin = current
                         /\ setFeePercentage(previous, percentage)'.res \in UnauthorizedErrors
                         /\ changeAdmin(current, other)'.res = OK
                         /\ changeAdmin(current, other)'.admin = other
                         /\ percentage <= MAX_FEE
                               => setFeePercentage(current, percentage)'.res = OK
          /\ \A previous \in Accounts, current \in Accounts :
                (previous = Fac_admin /\ current = Fac_admin' /\ current # previous)
                   => \A other \in Accounts :
                         /\ Fac_changeAdmin(previous, other)'.res = "Only admin can call this"
                         /\ Fac_changeAdmin(previous, other)'.admin = current
                         /\ Fac_changeAdmin(current, other)'.res = OK]_vars

\* Both factories have a new admin: the deployer is refused by both, the
\* new admin is not.
ChangeAdminGuardedWitness ==
    /\ admin = "alice"
    /\ Fac_admin = "alice"
    /\ changeAdmin(Deployer, Deployer).res = "Only admin"
    /\ setFeePercentage(Deployer, 0).res = "Only admin"
    /\ Fac_changeAdmin(Deployer, Deployer).res = "Only admin can call this"
    /\ changeAdmin("alice", "bob").res = OK
    /\ Fac_changeAdmin("alice", "bob").res = OK

\* The fields of an agreement of escrowMu.sol that no function writes.
Identity(st) ==
    <<st.buyer, st.seller, st.admin, st.amount, st.adminFee, st.expiryTime, st.requireMultiSig>>

\* C21. Identifiers are unique and never reused.  For the factory of
\* escrowMu.sol: allEscrows never holds an address twice, the deployed
\* escrows are exactly its entries, every step keeps the entries it had and
\* every existing agreement, terminal or not, keeps its address and its
\* buyer, seller, admin, amount, fee, expiry time and mode.  For
\* MultiPartyEscrow: createEscrow with an escrowId in use fails, with
\* "Escrow ID already exists" when it brings a deposit, and changes nothing;
\* and every step keeps buyer, seller and amount of every existing
\* agreement, terminal or not.
IdentifiersUnique ==
    /\ [](/\ \A j \in DOMAIN allEscrows, k \in DOMAIN allEscrows :
                allEscrows[j] = allEscrows[k] => j = k
          /\ DOMAIN escrow = {allEscrows[k] : k \in DOMAIN allEscrows}
          /\ \A escrowId \in Multi_EscrowIds, sender \in Accounts, seller \in Accounts,
                value \in Values \cup {1} :
                Multi_escrows[escrowId].buyer # ZeroAddress
                   => LET out == Multi_createEscrow(Frame(Multi_escrows, balance),
                                                    escrowId, sender, seller, value)
                      IN  /\ out.res = IF value > 0 THEN "Escrow ID already exists"
                                       ELSE "Must send ETH to create escrow"
                          /\ out.st = Multi_escrows
                          /\ out.bal = balance)
    /\ [][/\ Len(allEscrows') >= Len(allEscrows)
          /\ \A k \in DOMAIN allEscrows : allEscrows'[k] = allEscrows[k]
          /\ \A a \in DOMAIN escrow :
                a \in DOMAIN escrow' /\ Identity(escrow'[a]) = Identity(escrow[a])
          /\ \A escrowId \in Multi_EscrowIds :
                Multi_escrows[escrowId].buyer # ZeroAddress
                   => /\ Multi_escrows'[escrowId].buyer = Multi_escrows[escrowId].buyer
                      /\ Multi_escrows'[escrowId].seller = Multi_escrows[escrowId].seller
                      /\ Multi_escrows'[escrowId].amount = Multi_escrows[escrowId].amount]_vars

\* Two agreements of each contract, the first of each terminal, those of
\* MultiPartyEscrow with different buyers: a creation under the escrowId of
\* the terminal one is refused.
IdentifiersUniqueWitness ==
    /\ Len(allEscrows) = 2
    /\ escrow[allEscrows[1]].currentState \in Terminal
    /\ escrow[allEscrows[2]].currentState = "AWAITING_DELIVERY"
    /\ Multi_escrows["id1"].state = "COMPLETE"
    /\ Multi_escrows["id1"].buyer = "alice"
    /\ Multi_escrows["id2"].buyer = "carol"
    /\ Multi_createEscrow(Frame(Multi_escrows, balance), "id1", "carol", "bob", 1000).res
          = "Escrow ID already exists"

\* C22 as stated: every agreement created through the factory has, in every
\* reachable state, 0 < amount and adminFee <= amount, and no call on it
\* fails on the subtraction amount - adminFee.
FeeWithinAmount ==
    \A a \in DOMAIN escrow :
        /\ 0 < escrow[a].amount
        /\ escrow[a].adminFee <= escrow[a].amount
        /\ \A op \in Ops, sender \in Accounts, rej \in Rejects :
              Call(op, a, sender, rej).res # "Panic"

\* A single-approval agreement created at 20000 basis points: its stored fee
\* is twice its deposit, and the buyer's confirmDelivery fails on the
\* subtraction.
FeeExceedsAmount ==
    \E a \in DOMAIN escrow :
        /\ ~escrow[a].requireMultiSig
        /\ escrow[a].currentState = "AWAITING_DELIVERY"
        /\ escrow[a].amount > 0
        /\ escrow[a].adminFee = 2 * escrow[a].amount
        /\ Call("confirmDelivery", a, escrow[a].buyer, NoReject).res = "Panic"

\* C23 as stated: every agreement created, whatever _expiryDays createEscrow
\* accepted (0 included), has expiryTime greater than the block timestamp of
\* its creation.
ExpiryAfterCreation ==
    [][\A a \in DOMAIN escrow' \ DOMAIN escrow : escrow'[a].expiryTime > now]_vars

\* An agreement created with _expiryDays = 0 at time 0, seen at that same
\* time: it is expired, every party function fails on it, and expireEscrow
\* refunds it.
ExpiryAtCreation ==
    \E a \in DOMAIN escrow :
        /\ now = 0
        /\ escrow[a].expiryTime = 0
        /\ escrow[a].currentState = "AWAITING_DELIVERY"
        /\ \A op \in PartyOps, sender \in Accounts :
              Call(op, a, sender, NoReject).res \in ExpiredErrors \cup UnauthorizedErrors
        /\ Call("expireEscrow", a, escrow[a].seller, NoReject).res = OK

\* The part of MultiPartyEscrow's balance that is the deposit of the
\* agreement escrowId, in the mapping st.
Multi_Custody(st, escrowId) ==
    IF st[escrowId].state = "AWAITING_DELIVERY" THEN st[escrowId].amount ELSE 0

\* C24. Isolation between agreements.  escrowMu.sol: a call on the escrow a,
\* successful or failed, leaves the custody balance of every other escrow
\* as it was, and every step that changes the storage or the custody
\* balance of one escrow leaves storage and custody balance of every other
\* one, the factory's allEscrows, admin and percentage, and
\* MultiPartyEscrow unchanged.  MultiPartyEscrow: a call on the agreement
\* escrowId, successful or failed, leaves every other entry of the mapping
\* as it was and takes from the contract's balance exactly what the deposit
\* of escrowId decreases by; the contract's balance is at all times the sum
\* of the deposits of its agreements still awaiting delivery; and a step
\* that changes MultiPartyEscrow changes no escrow of escrowMu.sol.
Isolation ==
    /\ [](/\ \A a \in DOMAIN escrow, op \in Ops, sender \in Accounts, rej \in Rejects :
                LET out == Call(op, a, sender, rej)
                IN  /\ \A b \in (DOMAIN escrow \ {a}) \cup {Multi_Address} :
                          out.bal[b] = balance[b]
                    /\ out.res # OK => NothingChanged(out, a)
          /\ \A escrowId \in Multi_EscrowIds, op \in Multi_Ops, sender \in Accounts,
                rej \in Rejects :
                LET out == Multi_Call(op, escrowId, sender, rej)
                IN  /\ \A other \in Multi_EscrowIds \ {escrowId} :
                          out.st[other] = Multi_escrows[other]
                    /\ \A b \in DOMAIN escrow : out.bal[b] = balance[b]
                    /\ balance[Multi_Address] - out.bal[Multi_Address]
                          = Multi_Custody(Multi_escrows, escrowId)
                              - Multi_Custody(out.st, escrowId)
                    /\ out.res # OK => (out.st = Multi_escrows /\ out.bal = balance)
          /\ balance[Multi_Address]
                = SumOver([id \in Multi_EscrowIds |-> Multi_Custody(Multi_escrows, id)],
                          Multi_EscrowIds))
    /\ [][/\ \A a \in DOMAIN escrow :
                (escrow'[a] # escrow[a] \/ balance'[a] # balance[a])
                   => /\ \A b \in DOMAIN escrow \ {a} :
                             escrow'[b] = escrow[b] /\ balance'[b] = balance[b]
                      /\ DOMAIN escrow' = DOMAIN escrow
                      /\ UNCHANGED <<allEscrows, admin, adminFeePercentage, multiVars>>
                      /\ balance'[Multi_Address] = balance[Multi_Address]
          /\ \A escrowId \in Multi_EscrowIds :
                Multi_escrows'[escrowId] # Multi_escrows[escrowId]
                   => /\ \A other \in Multi_EscrowIds \ {escrowId} :
                             Multi_escrows'[other] = Multi_escrows[other]
                      /\ UNCHANGED <<muVars, Multi_admin>>
                      /\ \A b \in DOMAIN escrow : balance'[b] = balance[b]]_vars

\* Of two agreements of each contract one has been paid out and the other
\* still holds its deposit; a further call on the paid one fails.
IsolationWitness ==
    /\ Len(allEscrows) = 2
    /\ escrow[allEscrows[1]].currentState = "REFUNDED"
    /\ balance[allEscrows[1]] = 0
    /\ escrow[allEscrows[2]].currentState = "AWAITING_DELIVERY"
    /\ balance[allEscrows[2]] = escrow[allEscrows[2]].amount
    /\ Multi_escrows["id1"].state = "COMPLETE"
    /\ Multi_escrows["id2"].state = "AWAITING_DELIVERY"
    /\ balance[Multi_Address] = Multi_escrows["id2"].amount
    /\ Multi_Call("requestRefund", "id1", Multi_escrows["id1"].buyer, NoReject).res
          = "Invalid state"

\* The outcomes of the calls of seq, each a pair <<op, sender>>, made one
\* after the other on the escrow at self from the storage st and the
\* balances bal.
RECURSIVE Run(_, _, _, _, _)
Run(self, st, bal, seq, rej) ==
    IF seq = <<>> THEN <<>>
    ELSE LET out == CallOn(seq[1][1], st, bal, self, seq[1][2], rej)
         IN  <<out>> \o Run(self, out.st, out.bal, Tail(seq), rej)

\* The conflicting triggers of C25 on the escrow at self, each by a caller
\* the function accepts, in every order.
Triggers(self) ==
    {<<"confirmDelivery", escrow[self].buyer>>, <<"requestRefund", escrow[self].buyer>>,
     <<"raiseDispute", escrow[self].seller>>, <<"expireEscrow", escrow[self].seller>>}

Orders(self) ==
    {seq \in [1 .. 4 -> Triggers(self)] : \A j \in 1 .. 4, k \in 1 .. 4 : seq[j] = seq[k] => j = k}

\* Funds are in custody exactly while the agreement is not terminal.
InCustody(st, bal, self) ==
    bal[self] = IF st.currentState \in Terminal THEN 0 ELSE st.amount

\* C25 as stated: of the four conflicting triggers issued on an agreement in
\* AwaitingResolution, in any order, the recipients accepting, exactly one
\* takes effect (succeeds); and in no state have funds left custody while
\* the agreement is not terminal or stayed in custody of a terminal one.
ExactlyOneTakesEffect ==
    \A a \in DOMAIN escrow :
        /\ InCustody(escrow[a], balance, a)
        /\ escrow[a].currentState = "AWAITING_DELIVERY"
              => \A seq \in Orders(a) :
                    LET outs == Run(a, escrow[a], balance, seq, NoReject)
                    IN  Cardinality({k \in 1 .. 4 : outs[k].res = OK}) = 1

\* C25, amended.  In every state, funds are in custody exactly while the
\* agreement is not terminal.  Of the four conflicting triggers issued on an
\* agreement in AwaitingResolution, in any order, with any recipient
\* refusing or none: at most one moves the agreement out of
\* AwaitingResolution; every trigger after that one fails and changes
\* nothing; after each of them funds are in custody exactly while the
\* agreement is not terminal.  In single-approval mode, the recipients
\* accepting, exactly one succeeds; in dual-approval mode, the seller not
\* having approved, confirmDelivery before expiry succeeds by setting the
\* buyer's flag, whatever succeeds after it.
Serialized ==
    \A a \in DOMAIN escrow :
        /\ InCustody(escrow[a], balance, a)
        /\ escrow[a].currentState = "AWAITING_DELIVERY"
              => \A seq \in Orders(a), rej \in Rejects :
                    LET outs == Run(a, escrow[a], balance, seq, rej)
                        moved == {k \in 1 .. 4 : outs[k].st.currentState # "AWAITING_DELIVERY"
                                      /\ \A j \in 1 .. (k - 1) :
                                            outs[j].st.currentState = "AWAITING_DELIVERY"}
                    IN  /\ Cardinality(moved) <= 1
                        /\ \A k \in moved : outs[k].res = OK
                        /\ \A k \in moved :
                              \A j \in (k + 1) .. 4 :
                                  /\ outs[j].res # OK
                                  /\ outs[j].st = outs[k].st
                                  /\ outs[j].bal = outs[k].bal
                        /\ \A k \in 1 .. 4 : InCustody(outs[k].st, outs[k].bal, a)
                        /\ (rej = NoReject /\ ~escrow[a].requireMultiSig)
                              => Cardinality({k \in 1 .. 4 : outs[k].res = OK}) = 1
                        /\ (/\ escrow[a].requireMultiSig
                            /\ ~escrow[a].sellerApproved
                            /\ now < escrow[a].expiryTime)
                              => \A k \in 1 .. 4 :
                                    (seq[k][1] = "confirmDelivery" /\ moved \cap (1 .. k) = {})
                                       => outs[k].res = OK

\* A dual-approval agreement in AwaitingResolution before expiry: issued in
\* this order, confirmDelivery and then requestRefund both succeed; an
\* agreement refunded that way has left custody.
SerializedWitness ==
    \E a \in DOMAIN escrow :
        /\ escrow[a].requireMultiSig
        /\ escrow[a].buyerApproved
        /\ escrow[a].currentState = "REFUNDED"
        /\ settledBy[a] = "requestRefund"
        /\ balance[a] = 0
        /\ Call("raiseDispute", a, escrow[a].seller, NoReject).res = "Invalid state"

\* C26. adminResolution succeeds only on an agreement in Disputed; called by
\* the agreement's admin on an agreement in AwaitingResolution, Complete or
\* Refunded, at any time, with either argument, it fails with InvalidState
\* and changes nothing.
ArbitrationOnlyOnDispute ==
    \A a \in DOMAIN escrow, op \in AdminOps, sender \in Accounts, rej \in Rejects :
        LET out == Call(op, a, sender, rej)
        IN  /\ out.res = OK => escrow[a].currentState = "DISPUTED"
            /\ (escrow[a].currentState # "DISPUTED" /\ sender = escrow[a].admin)
                  => (out.res \in InvalidStateErrors /\ NothingChanged(out, a))

\* An agreement in AwaitingResolution past its expiry time and with an
\* approval given: the admin's resolution is refused.
ArbitrationOnlyOnDisputeWitness ==
    \E a \in DOMAIN escrow :
        /\ escrow[a].currentState = "AWAITING_DELIVERY"
        /\ escrow[a].buyerApproved
        /\ now >= escrow[a].expiryTime
        /\ Call("adminResolution(true)", a, escrow[a].admin, NoReject).res = "No active dispute"
        /\ Call("adminResolution(false)", a, escrow[a].admin, NoReject).res = "No active dispute"

\* C27. raiseDispute by the buyer or by the seller on an agreement in
\* AwaitingResolution before expiry succeeds, sets the state to Disputed and
\* changes nothing else: every balance, the amount, the fee and both
\* approval flags are as before.  On an agreement already Disputed it fails
\* and changes nothing, for every caller at every time, and it fails with
\* InvalidState when a party calls it before expiry.
DisputeOnlyChangesState ==
    \A a \in DOMAIN escrow, sender \in Accounts, rej \in Rejects :
        LET out == Call("raiseDispute", a, sender, rej)
        IN  /\ (/\ escrow[a].currentState = "AWAITING_DELIVERY"
                /\ now < escrow[a].expiryTime
                /\ Party(a, sender))
                  => /\ out.res = OK
                     /\ out.st = [escrow[a] EXCEPT !.currentState = "DISPUTED"]
                     /\ out.bal = balance
            /\ escrow[a].currentState = "DISPUTED"
                  => /\ out.res # OK
                     /\ NothingChanged(out, a)
                     /\ (Party(a, sender) /\ now < escrow[a].expiryTime)
                           => out.res \in InvalidStateErrors

\* A dual-approval agreement disputed after the seller's approval: the flag
\* and the deposit are kept, and a second raiseDispute is refused.
DisputeOnlyChangesStateWitness ==
    \E a \in DOMAIN escrow :
        /\ escrow[a].currentState = "DISPUTED"
        /\ escrow[a].sellerApproved /\ ~escrow[a].buyerApproved
        /\ balance[a] = escrow[a].amount
        /\ SumOver(balance, Accounts) = 0
        /\ now < escrow[a].expiryTime
        /\ Call("raiseDispute", a, escrow[a].buyer, NoReject).res = "Invalid state"

\* C28 as stated: requestRefund by the buyer on an agreement in
\* AwaitingResolution before expiry succeeds, sets the state to Refunded and
\* returns the full deposited amount to the buyer, nothing going to the
\* seller or to the admin, whatever the approval flags; from Disputed it
\* fails with InvalidState.
BuyerRefundAlwaysSucceeds ==
    \A a \in DOMAIN escrow, rej \in Rejects :
        LET out == Call("requestRefund", a, escrow[a].buyer, rej)
        IN  now < escrow[a].expiryTime
              => /\ escrow[a].currentState = "AWAITING_DELIVERY"
                    => /\ out.res = OK
                       /\ out.st = [escrow[a] EXCEPT !.currentState = "REFUNDED"]
                       /\ out.bal = PaidWhole(a, escrow[a].buyer)
                 /\ escrow[a].currentState = "DISPUTED"
                    => out.res \in InvalidStateErrors /\ NothingChanged(out, a)

\* C28, amended. requestRefund by the buyer on an agreement in
\* AwaitingResolution before expiry, whatever the approval flags, succeeds
\* unless the buyer's account refuses the transfer: it then sets the state
\* to Refunded and moves the full deposited amount from custody to the
\* buyer, and no other balance changes (nothing to the seller, no fee to the
\* admin).  When the buyer's account refuses, the call fails with
\* TransferFailed and changes nothing.  From Disputed before expiry it fails
\* with InvalidState and changes nothing.
BuyerRefund ==
    \A a \in DOMAIN escrow, rej \in Rejects :
        LET out == Call("requestRefund", a, escrow[a].buyer, rej)
        IN  now < escrow[a].expiryTime
              => /\ escrow[a].currentState = "AWAITING_DELIVERY"
                    => IF rej = escrow[a].buyer
                       THEN out.res = "TransferFailed" /\ NothingChanged(out, a)
                       ELSE /\ out.res = OK
                            /\ out.st = [escrow[a] EXCEPT !.currentState = "REFUNDED"]
                            /\ out.bal = PaidWhole(a, escrow[a].buyer)
                 /\ escrow[a].currentState = "DISPUTED"
                    => out.res \in InvalidStateErrors /\ NothingChanged(out, a)

\* An agreement with a fee and the seller's approval was refunded in full on
\* the buyer's request: the seller and the admin received nothing.
BuyerRefundWitness ==
    \E a \in DOMAIN escrow :
        /\ settledBy[a] = "requestRefund"
        /\ escrow[a].currentState = "REFUNDED"
        /\ escrow[a].sellerApproved
        /\ escrow[a].adminFee > 0
        /\ Cardinality({escrow[a].buyer, escrow[a].seller, escrow[a].admin}) = 3
        /\ balance[a] = 0
        /\ balance[escrow[a].buyer] = escrow[a].amount
        /\ balance[escrow[a].seller] = 0
        /\ balance[escrow[a].admin] = 0

\* The agreement at self is unresolved at or past its deadline.
Overdue(self) ==
    /\ self \in DOMAIN escrow
    /\ escrow[self].currentState = "AWAITING_DELIVERY"
    /\ now >= escrow[self].expiryTime

\* The agreement at self was refunded.
Refunded(self) == self \in DOMAIN escrow /\ escrow[self].currentState = "REFUNDED"

\* C29 as stated: time advancing and expireEscrow being called again and
\* again, an agreement that is in AwaitingResolution at a time >= expiryTime
\* is eventually Refunded, and in such a state expireEscrow succeeds for
\* every caller.
NeverStuckPastDeadline ==
    /\ [](\A a \in SweptAddrs : Overdue(a)
            => \A sender \in Accounts :
                  Call("expireEscrow", a, sender, Refusing).res = OK)
    /\ \A a \in SweptAddrs : Overdue(a) ~> Refunded(a)

\* C29, amended. Time advancing and expireEscrow being called again and
\* again, an agreement that is in AwaitingResolution at a time >= expiryTime
\* and whose buyer's account accepts transfers is eventually Refunded, and
\* in such a state expireEscrow succeeds for every caller.  While the
\* buyer's account refuses, expireEscrow fails and the agreement stays as it
\* is.
NeverStuckUnlessRefused ==
    /\ [](\A a \in SweptAddrs : Overdue(a)
            => \A sender \in Accounts :
                  LET out == Call("expireEscrow", a, sender, Refusing)
                  IN  IF escrow[a].buyer = Refusing
                      THEN out.res = "TransferFailed" /\ NothingChanged(out, a)
                      ELSE out.res = OK)
    /\ \A a \in SweptAddrs :
          (Overdue(a) /\ escrow[a].buyer # Refusing) ~> Refunded(a)

\* Of two agreements past their deadline, the one whose buyer accepts was
\* refunded by expireEscrow and the other, whose buyer refuses, is still
\* unresolved with its deposit in custody.
NeverStuckUnlessRefusedWitness ==
    \E a, b \in DOMAIN escrow :
        /\ settledBy[a] = "expireEscrow"
        /\ Refunded(a)
        /\ escrow[a].buyer # Refusing
        /\ now >= escrow[a].expiryTime
        /\ Overdue(b)
        /\ escrow[b].buyer = Refusing
        /\ balance[b] = escrow[b].amount

\* C30. On a Disputed agreement, at every time, confirmDelivery,
\* confirmPayment, requestRefund, raiseDispute and expireEscrow fail for
\* every caller and change nothing; the only calls that succeed are
\* adminResolution by the agreement's admin; the deposit is in custody; and
\* every step that changes the agreement or its custody balance is an
\* adminResolution that completes it, never a refund by expireEscrow.
DisputedOnlyAdminResolves ==
    /\ [](\A a \in DOMAIN escrow :
            escrow[a].currentState = "DISPUTED"
              => /\ balance[a] = escrow[a].amount
                 /\ \A op \in Ops, sender \in Accounts, rej \in Rejects :
                       LET out == Call(op, a, sender, rej)
                       IN  /\ op \notin AdminOps
                              => out.res # OK /\ NothingChanged(out, a)
                           /\ out.res = OK => sender = escrow[a].admin)
    /\ [][\A a \in DOMAIN escrow :
            (/\ escrow[a].currentState = "DISPUTED"
             /\ (escrow'[a] # escrow[a] \/ balance'[a] # balance[a]))
               => /\ escrow'[a].currentState = "COMPLETE"
                  /\ settledBy'[a] \in AdminOps]_vars

\* A disputed agreement past its expiry time with its deposit in custody:
\* expireEscrow and the buyer's refund request are refused.
DisputedOnlyAdminResolvesWitness ==
    \E a \in DOMAIN escrow :
        /\ escrow[a].currentState = "DISPUTED"
        /\ now >= escrow[a].expiryTime
        /\ balance[a] = escrow[a].amount
        /\ escrow[a].amount > 0
        /\ Call("expireEscrow", a, escrow[a].buyer, NoReject).res = "Already resolved"
        /\ Call("requestRefund", a, escrow[a].buyer, NoReject).res = "Escrow expired"

CustodyTracksState ==
    /\ \A a \in DOMAIN escrow :
          /\ escrow[a].currentState \in {"AWAITING_DELIVERY", "DISPUTED"}
                => balance[a] = escrow[a].amount
          /\ escrow[a].currentState \in {"COMPLETE", "REFUNDED"}
                => balance[a] = 0
    /\ \A x \in Addresses : balance[x] >= 0

\* A disputed agreement with a fee was released by its admin: the escrow
\* holds nothing, the seller has the amount less the fee, the admin the fee.
CustodyTracksStateWitness ==
    \E a \in DOMAIN escrow :
        /\ settledBy[a] = "adminResolution(true)"
        /\ escrow[a].currentState = "COMPLETE"
        /\ escrow[a].adminFee > 0
        /\ escrow[a].seller # escrow[a].admin
        /\ balance[a] = 0
        /\ balance[escrow[a].seller] = escrow[a].amount - escrow[a].adminFee
        /\ balance[escrow[a].admin] = escrow[a].adminFee

\* C33. The admin of an agreement is the one recorded at its creation.  No
\* step changes the admin recorded in an existing agreement, and a step that
\* changes the factory's admin changes no agreement and no balance.  In
\* every state adminResolution succeeds only for the recorded admin, anyone
\* else (the factory's new admin included) fails with Unauthorized and
\* changes nothing, and a release that succeeds pays the fee to the recorded
\* admin.
AdminFixedAtCreation ==
    /\ [](\A a \in DOMAIN escrow, op \in AdminOps, sender \in Accounts, rej \in Rejects :
             LET out == Call(op, a, sender, rej)
             IN  /\ out.res = OK => sender = escrow[a].admin
                 /\ sender # escrow[a].admin
                       => out.res \in UnauthorizedErrors /\ NothingChanged(out, a)
                 /\ (op = "adminResolution(true)" /\ out.res = OK)
                       => out.bal = PaidReleased(a))
    /\ [][\A a \in DOMAIN escrow :
             /\ escrow'[a].admin = escrow[a].admin
             /\ admin' # admin => (escrow'[a] = escrow[a] /\ balance' = balance)]_vars

\* A disputed agreement with a fee, created before the factory's admin
\* changed: the new admin is refused, the recorded admin resolves it.
AdminFixedAtCreationWitness ==
    \E a \in DOMAIN escrow :
        /\ admin # escrow[a].admin
        /\ escrow[a].currentState = "DISPUTED"
        /\ escrow[a].adminFee > 0
        /\ escrow[a].adminFee <= escrow[a].amount
        /\ Call("adminResolution(true)", a, admin, NoReject).res = "Only admin"
        /\ Call("adminResolution(true)", a, escrow[a].admin, NoReject).res = OK
        /\ Call("adminResolution(true)", a, escrow[a].admin, NoReject).bal[escrow[a].admin]
              = balance[escrow[a].admin] + escrow[a].adminFee

\* C34. buyerApproved and sellerApproved are false in a newly created
\* agreement; no step, whatever function it calls, turns a flag that is
\* true back to false; and in single-approval mode both flags are false in
\* every reachable state.
ApprovalFlagsMonotonic ==
    /\ [](\A a \in DOMAIN escrow :
             ~escrow[a].requireMultiSig
                => ~escrow[a].buyerApproved /\ ~escrow[a].sellerApproved)
    /\ [][/\ \A a \in DOMAIN escrow :
                /\ escrow[a].buyerApproved => escrow'[a].buyerApproved
                /\ escrow[a].sellerApproved => escrow'[a].sellerApproved
          /\ \A a \in DOMAIN escrow' \ DOMAIN escrow :
                ~escrow'[a].buyerApproved /\ ~escrow'[a].sellerApproved]_vars

\* A dual-approval agreement the buyer approved, then disputed and resolved
\* by the admin in the buyer's favour: the flag is still set.
ApprovalFlagsMonotonicWitness ==
    \E a \in DOMAIN escrow :
        /\ escrow[a].requireMultiSig
        /\ escrow[a].buyerApproved
        /\ ~escrow[a].sellerApproved
        /\ escrow[a].currentState = "COMPLETE"
        /\ settledBy[a] = "adminResolution(false)"

\* C35. adminResolution transfers first and writes COMPLETE last.  Whoever
\* of the recipients calls back into the escrow while being paid, with
\* whichever function, and whether or not it ignores the failure of that
\* inner call: a resolution that succeeds was called by the admin on a
\* Disputed agreement and leaves exactly the balances of a resolution
\* without call-back (one payout: the amount less the fee to the seller and
\* the fee to the admin, or the whole amount to the buyer), the state
\* Complete and nothing else changed; one that fails changes nothing; never
\* is more than the deposited amount paid out, and the escrow's balance is
\* never negative.
NoSecondPayout ==
    \A a \in DOMAIN escrow :
        /\ InCustody(escrow[a], balance, a)
        /\ \A sender \in Accounts, releaseToSeller \in BOOLEAN, hook \in Hooks :
              LET out == adminResolutionReentrant(Frame(escrow[a], balance), a, sender,
                                                  releaseToSeller, hook)
              IN  /\ IF out.res = OK
                     THEN /\ escrow[a].currentState = "DISPUTED"
                          /\ sender = escrow[a].admin
                          /\ out.st = [escrow[a] EXCEPT !.currentState = "COMPLETE"]
                          /\ out.bal = IF releaseToSeller THEN PaidReleased(a)
                                       ELSE PaidWhole(a, escrow[a].buyer)
                     ELSE NothingChanged(out, a)
                  /\ SumOver(out.bal, Accounts) - SumOver(balance, Accounts) <= escrow[a].amount
                  /\ out.bal[a] >= 0

\* A disputed agreement whose buyer is also its admin: paid the refund, the
\* buyer calls adminResolution again from inside the transfer, that inner
\* call succeeds, and the resolution still pays the deposit once.
NoSecondPayoutWitness ==
    \E a \in DOMAIN escrow :
        LET hook == [who |-> escrow[a].buyer, op |-> "adminResolution(false)", swallow |-> FALSE]
            out == adminResolutionReentrant(Frame(escrow[a], balance), a, escrow[a].admin,
                                            FALSE, hook)
        IN  /\ escrow[a].currentState = "DISPUTED"
            /\ escrow[a].buyer = escrow[a].admin
            /\ escrow[a].seller # escrow[a].buyer
            /\ balance[a] = escrow[a].amount
            /\ out.res = OK
            /\ out.bal[escrow[a].buyer] = balance[escrow[a].buyer] + escrow[a].amount
            /\ out.bal[a] = 0

\* C36 as stated: on an agreement of MultiPartyEscrow in AWAITING_DELIVERY,
\* confirmDelivery releases the funds to the seller only when the caller is
\* the buyer; called by the seller (or anyone else) it fails and changes
\* nothing.
Multi_OnlyBuyerReleases ==
    \A escrowId \in Multi_EscrowIds, sender \in Accounts, rej \in Rejects :
        LET out == Multi_Call("confirmDelivery", escrowId, sender, rej)
        IN  Multi_escrows[escrowId].state = "AWAITING_DELIVERY"
              => /\ out.res = OK => sender = Multi_escrows[escrowId].buyer
                 /\ sender # Multi_escrows[escrowId].buyer
                       => out.st = Multi_escrows /\ out.bal = balance

\* An agreement in AWAITING_DELIVERY whose seller, who is not its buyer,
\* calls confirmDelivery: the call succeeds, completes the agreement and pays
\* the seller the whole amount.
Multi_SellerReleases ==
    \E escrowId \in Multi_EscrowIds :
        LET agreement == Multi_escrows[escrowId]
            out == Multi_Call("confirmDelivery", escrowId, agreement.seller, NoReject)
        IN  /\ agreement.state = "AWAITING_DELIVERY"
            /\ agreement.seller # agreement.buyer
            /\ out.res = OK
            /\ out.st[escrowId].state = "COMPLETE"
            /\ out.bal[agreement.seller] = balance[agreement.seller] + agreement.amount

\* The sum of the amounts of the agreements of the mapping st that are in
\* AWAITING_DELIVERY.
Multi_Owed(st) ==
    SumOver([id \in Multi_EscrowIds |-> Multi_Custody(st, id)], Multi_EscrowIds)

\* C37. In every reachable state the balance of MultiPartyEscrow equals the
\* sum of the amounts of its agreements in AWAITING_DELIVERY.  So the
\* transfer of a release or a refund is always covered (with an accepting
\* recipient the call of an entitled caller succeeds), and after every call,
\* successful or not, the balance still equals the sum owed to the
\* agreements in AWAITING_DELIVERY: no call pays out another agreement's
\* funds.
Multi_PoolCovers ==
    /\ balance[Multi_Address] = Multi_Owed(Multi_escrows)
    /\ \A escrowId \in Multi_EscrowIds, op \in Multi_Ops, sender \in Accounts, rej \in Rejects :
          LET out == Multi_Call(op, escrowId, sender, rej)
              agreement == Multi_escrows[escrowId]
          IN  /\ out.bal[Multi_Address] = Multi_Owed(out.st)
              /\ agreement.state = "AWAITING_DELIVERY"
                    => agreement.amount <= balance[Multi_Address]
              /\ (/\ agreement.state = "AWAITING_DELIVERY"
                  /\ rej = NoReject
                  /\ sender = IF op \in {"adminRelease", "adminRefund"}
                              THEN Multi_admin ELSE agreement.buyer)
                    => out.res = OK

\* Two agreements in AWAITING_DELIVERY held in the one balance; after the
\* admin's release of the first the balance is the amount of the second.
Multi_PoolCoversWitness ==
    /\ Multi_escrows["id1"].state = "AWAITING_DELIVERY"
    /\ Multi_escrows["id2"].state = "AWAITING_DELIVERY"
    /\ balance[Multi_Address] = Multi_escrows["id1"].amount + Multi_escrows["id2"].amount
    /\ Multi_escrows["id2"].amount > 0
    /\ Multi_Call("adminRelease", "id1", Multi_admin, NoReject).res = OK
    /\ Multi_Call("adminRelease", "id1", Multi_admin, NoReject).bal[Multi_Address]
          = Multi_escrows["id2"].amount

\* C38. On an identifier of MultiPartyEscrow under which no agreement was
\* created, every call fails and changes nothing, no agreement and no
\* balance: confirmDelivery and requestRefund are refused for every caller
\* as not a party, adminRelease and adminRefund by the admin for the state
\* (and by anyone else as not the admin).
Multi_AbsentFails ==
    \A escrowId \in Multi_EscrowIds, op \in Multi_Ops, sender \in Accounts, rej \in Rejects :
        LET out == Multi_Call(op, escrowId, sender, rej)
        IN  Multi_escrows[escrowId] = Multi_NoAgreement
              => /\ out.res # OK
                 /\ out.st = Multi_escrows
                 /\ out.bal = balance
                 /\ op \in {"confirmDelivery", "requestRefund"}
                       => out.res = "Not a party to this escrow"
                 /\ (op \in {"adminRelease", "adminRefund"} /\ sender = Multi_admin)
                       => out.res \in InvalidStateErrors

\* One agreement exists, with its deposit in the contract, and the other
\* identifier is unused: the admin's release and a refund request on the
\* unused identifier are refused.
Multi_AbsentFailsWitness ==
    /\ Multi_escrows["id1"].state = "AWAITING_DELIVERY"
    /\ balance[Multi_Address] > 0
    /\ Multi_escrows["id2"] = Multi_NoAgreement
    /\ Multi_Call("adminRelease", "id2", Multi_admin, NoReject).res = "Invalid state"
    /\ Multi_Call("adminRefund", "id2", Multi_admin, NoReject).res = "Invalid state"
    /\ Multi_Call("requestRefund", "id2", Multi_escrows["id1"].buyer, NoReject).res
          = "Not a party to this escrow"

\* The part of C39 on the order of the states of escrowOne.sol's escrow: a
\* step changes the state only from AWAITING_PAYMENT to AWAITING_DELIVERY or
\* from AWAITING_DELIVERY to COMPLETE; deposit succeeds only for the buyer
\* and only in AWAITING_PAYMENT, hence once; before the deposit
\* confirmDelivery, refundBuyer and releaseToSeller fail for every caller;
\* after it each succeeds for its caller when the recipient accepts, and the
\* one that succeeds completes the escrow, on which every call then fails.
One_Advances ==
    /\ [](One_Address \in DOMAIN One_escrow
            => \A op \in One_Ops, sender \in Accounts, value \in Values, rej \in Rejects :
                  LET st == One_escrow[One_Address]
                      out == One_Call(op, sender, value, rej)
                  IN  /\ out.res # OK => (out.st = st /\ out.bal = balance)
                      /\ (op = "deposit" /\ out.res = OK)
                            => /\ sender = st.buyer
                               /\ st.currentState = "AWAITING_PAYMENT"
                               /\ out.st.currentState = "AWAITING_DELIVERY"
                      /\ (op \in One_PayoutOps /\ out.res = OK)
                            => /\ st.currentState = "AWAITING_DELIVERY"
                               /\ out.st.currentState = "COMPLETE"
                               /\ out.bal[One_Address] = 0
                      /\ (/\ op \in One_PayoutOps
                          /\ st.currentState = "AWAITING_DELIVERY"
                          /\ rej = NoReject
                          /\ sender = IF op = "confirmDelivery" THEN st.buyer ELSE st.admin)
                            => out.res = OK
                      /\ st.currentState = "COMPLETE" => out.res # OK)
    /\ [][\A a \in DOMAIN One_escrow :
             One_escrow'[a].currentState # One_escrow[a].currentState
                => <<One_escrow[a].currentState, One_escrow'[a].currentState>>
                      \in {<<"AWAITING_PAYMENT", "AWAITING_DELIVERY">>,
                           <<"AWAITING_DELIVERY", "COMPLETE">>}]_vars

\* C39 as stated: the states of escrowOne.sol's escrow advance in order as
\* above, and while the escrow is in AWAITING_DELIVERY the deposit it holds
\* is greater than zero.
One_Lifecycle ==
    /\ One_Advances
    /\ [](\A a \in DOMAIN One_escrow :
             One_escrow[a].currentState = "AWAITING_DELIVERY" => balance[a] > 0)

\* The buyer has deposited nothing: the escrow is in AWAITING_DELIVERY with
\* an empty balance, and the buyer's confirmation completes it paying the
\* seller nothing.
One_ZeroDeposit ==
    /\ One_Address \in DOMAIN One_escrow
    /\ One_escrow[One_Address].currentState = "AWAITING_DELIVERY"
    /\ balance[One_Address] = 0
    /\ LET st == One_escrow[One_Address]
           out == One_Call("confirmDelivery", st.buyer, 0, NoReject)
       IN  /\ out.res = OK
           /\ out.st.currentState = "COMPLETE"
           /\ out.bal[st.seller] = balance[st.seller]

\* The token the middleware reads from the header.
Auth_Token(header) ==
    IF header.defined THEN Auth_String(Auth_replace(header.parts, "Bearer "))
    ELSE Auth_Undefined

\* C40. Whatever the header, the environment and the cached secret, the
\* middleware does exactly one thing with a request: it calls next() once
\* and sends nothing, having set req.email to the payload's email, exactly
\* when the request carries a token that verifies and whose payload has an
\* email; otherwise it never calls next(), leaves req.email unset and sends
\* exactly one response: 401 without a token, 403 for a verified payload
\* without email, 401 for an expired token, 401 for an invalid token, 500
\* for any other error.  Every request handled so far had one outcome.
AuthOneOutcome ==
    /\ \A header \in Auth_Headers :
          LET done == auth(header, Auth_secret, Auth_env)
              token == Auth_Token(header)
              decode == verifyToken(token, Auth_secret, Auth_env)
              passes == /\ ~Auth_Falsy(token)
                        /\ decode.thrown = ""
                        /\ decode.email \notin {"undefined", ""}
          IN  /\ Len(done.responses) + done.nexts = 1
              /\ done.nexts = 1 <=> passes
              /\ passes => (done.email = decode.email /\ done.responses = <<>>)
              /\ ~passes
                    => /\ done.email = "undefined"
                       /\ done.responses[1].status
                             = CASE Auth_Falsy(token) -> 401
                                 [] decode.thrown = "" -> 403
                                 [] decode.thrown = "TokenExpiredError" -> 401
                                 [] decode.thrown = "JsonWebTokenError" -> 401
                                 [] OTHER -> 500
    /\ \A k \in DOMAIN Auth_handled :
          Len(Auth_handled[k].responses) + Auth_handled[k].nexts = 1

\* The last request carried a verified token with an email and was passed
\* on; with the secret now cached, an expired token gets 401, a token
\* without email 403 and a request without header 401.
AuthOneOutcomeWitness ==
    /\ Auth_handled # <<>>
    /\ Auth_handled[1].header = Auth_String(<<"Bearer ", "tokEmail">>)
    /\ Auth_handled[1].nexts = 1
    /\ Auth_handled[1].responses = <<>>
    /\ Auth_handled[1].email = "user@example.org"
    /\ ~Auth_Falsy(Auth_secret)
    /\ auth(Auth_String(<<"Bearer ", "tokExpired">>), Auth_secret, Auth_env).responses
          = <<Auth_Response(401, "Token expired")>>
    /\ auth(Auth_String(<<"Bearer ", "tokNoEmail">>), Auth_secret, Auth_env).responses
          = <<Auth_Response(403, "Invalid token structure")>>
    /\ auth(Auth_Undefined, Auth_secret, Auth_env).responses
          = <<Auth_Response(401, "Access Token not found!")>>

====
